---- MODULE Spec2Model ----
(***************************************************************************)
(* Weather station ingestion pipeline: MQTT subscription -> decoder ->     *)
(* coordinator callback -> InfluxDB gateway, with the coordinator's        *)
(* setup / run / shutdown lifecycle on the main thread and paho's network  *)
(* loop on a background thread.                                            *)
(*                                                                         *)
(* Numbers are fixed-point, in tenths: 255 stands for 25.5.                *)
(***************************************************************************)
EXTENDS Integers, Sequences, FiniteSets, TLC

(***************************************************************************)
(* Bounds of the model.                                                    *)
(***************************************************************************)
MaxMsgs == 2

MaxDisconnects == 1

MaxSignals == 1

MaxInputMsgs == 1

MaxCalls == 4

MaxBatch == 2

MaxTime == 3

MaxLimit == 2

MaxStatsMsgs == 10

(***************************************************************************)
(* Python values. A float is finite (v, in tenths) or infinite; None is a  *)
(* value of its own.                                                       *)
(***************************************************************************)
PyNone == [k |-> "none", v |-> 0]

PyFloat(n) == [k |-> "float", v |-> n]

PyInf == [k |-> "inf", v |-> 1]

PyInt(n) == [k |-> "int", v |-> n]

(***************************************************************************)
(* JSON values as json.loads returns them. A string carries what its text  *)
(* looks like: an integer literal, a decimal literal or other text.        *)
(***************************************************************************)
JNum(n) == [t |-> "num", v |-> n]

JInf == [t |-> "inf", v |-> 1]

JStrInt(n) == [t |-> "str_int", v |-> n]

JStrDec(n) == [t |-> "str_dec", v |-> n]

JStrText == [t |-> "str_text", v |-> 0]

JBool(b) == [t |-> "bool", v |-> IF b THEN 10 ELSE 0]

JNull == [t |-> "null", v |-> 0]

JArr == [t |-> "arr", v |-> 0]

JObj == [t |-> "obj", v |-> 0]

(***************************************************************************)
(* Results of a computation that may raise: a value, or an exception.      *)
(***************************************************************************)
Ok(x) == [exc |-> "none", val |-> x]

Raise(e) == [exc |-> e, val |-> PyNone]

(* Python's exception hierarchy, as far as the except clauses need it. *)
ExcParent(e) ==
    CASE e = "JSONDecodeError" -> "ValueError"
      [] e = "UnicodeDecodeError" -> "ValueError"
      [] e = "OverflowError" -> "ArithmeticError"
      [] e = "ConnectionError" -> "OSError"
      [] e \in {"KeyError", "TypeError", "ValueError", "ArithmeticError",
                "AttributeError", "RuntimeError", "OSError", "StoreError"}
           -> "Exception"
      [] e = "Exception" -> "BaseException"
      [] OTHER -> "BaseException"

RECURSIVE IsInstance(_, _)
IsInstance(e, cls) ==
    IF e = cls THEN TRUE
    ELSE IF e = "BaseException" THEN FALSE
    ELSE IsInstance(ExcParent(e), cls)

(***************************************************************************)
(* float(x) and int(x) on a decoded JSON value.                            *)
(***************************************************************************)
Trunc(n) == IF n >= 0 THEN (n \div 10) * 10 ELSE -(((-n) \div 10) * 10)

ToFloat(x) ==
    CASE x.t \in {"num", "str_int", "str_dec", "bool"} -> Ok(PyFloat(x.v))
      [] x.t = "inf" -> Ok(PyInf)
      [] x.t = "str_text" -> Raise("ValueError")
      [] OTHER -> Raise("TypeError")

ToInt(x) ==
    CASE x.t \in {"num", "bool"} -> Ok(PyInt(Trunc(x.v)))
      [] x.t = "str_int" -> Ok(PyInt(x.v))
      [] x.t = "inf" -> Raise("OverflowError")
      [] x.t \in {"str_dec", "str_text"} -> Raise("ValueError")
      [] OTHER -> Raise("TypeError")

(***************************************************************************)
(* models.py: WeatherSample and its __post_init__ range checks.            *)
(***************************************************************************)
TempMin == -50

TempMax == 100

HumMin == 0

HumMax == 100

InRange(lo, x, hi) == x.k # "inf" /\ lo * 10 <= x.v /\ x.v <= hi * 10

(* the humidity check left out *)
PostInit_NoHumCheck(s) ==
    IF ~InRange(TempMin, s.temperature_c, TempMax) THEN Raise("ValueError")
    ELSE Ok(s)

(* the temperature check left out *)
PostInit_NoTempCheck(s) ==
    IF ~InRange(HumMin, s.humidity_pct, HumMax) THEN Raise("ValueError")
    ELSE Ok(s)

PostInit(s) ==
    IF ~InRange(TempMin, s.temperature_c, TempMax) THEN Raise("ValueError")
    ELSE IF ~InRange(HumMin, s.humidity_pct, HumMax) THEN Raise("ValueError")
    ELSE Ok(s)

WeatherSample(ts, f, g) ==
    PostInit([timestamp |-> ts,
              temperature_c |-> f[1], humidity_pct |-> f[2],
              air_quality_co2_ppm |-> f[3], flammable_gas_ppm |-> f[4],
              toxic_gas_ppm |-> f[5], uv_index |-> f[6],
              battery_voltage |-> f[7],
              gps_latitude |-> g[1], gps_longitude |-> g[2],
              gps_altitude_m |-> g[3], gps_satellites |-> g[4],
              gps_fix_quality |-> g[5]])

(***************************************************************************)
(* mqtt_client.py: the decoder.                                            *)
(***************************************************************************)
RequiredKeys ==
    <<"temperature", "humidity", "co2", "flammable_gas", "toxic_gas",
      "uv_index", "battery">>

OptionalKeys == <<"latitude", "longitude", "altitude", "satellites", "fix_quality">>

ConfigTimezone == "America/Sao_Paulo"

KnownTimezones == {"America/Sao_Paulo", "UTC"}

(* ZoneInfo(config.timezone), falling back to UTC *)
ResolveZone(tzname) == IF tzname \in KnownTimezones THEN tzname ELSE "UTC"

(* bytes.decode("utf-8") then json.loads *)
ParseJson(p) ==
    IF p.enc # "utf8" THEN Raise("UnicodeDecodeError")
    ELSE IF p.syntax # "json" THEN Raise("JSONDecodeError")
    ELSE [exc |-> "none", val |-> [top |-> p.top, m |-> p.m]]

(* data.get(key, 0) in place of data[key] *)
GetItem_Default(data, key) ==
    IF data.top # "object" THEN Raise("TypeError")
    ELSE IF key \notin DOMAIN data.m THEN [exc |-> "none", val |-> JNum(0)]
    ELSE [exc |-> "none", val |-> data.m[key]]

(* data[key] *)
GetItem(data, key) ==
    IF data.top # "object" THEN Raise("TypeError")
    ELSE IF key \notin DOMAIN data.m THEN Raise("KeyError")
    ELSE [exc |-> "none", val |-> data.m[key]]

(* float(data[key]) *)
RequiredFloat(data, key) ==
    LET it == GetItem(data, key)
    IN  IF it.exc # "none" THEN it ELSE ToFloat(it.val)

(* data.get(key) *)
DictGet(data, key) ==
    IF data.top \notin {"object"} THEN Raise("AttributeError")
    ELSE IF key \notin DOMAIN data.m THEN [exc |-> "none", val |-> JNull]
    ELSE [exc |-> "none", val |-> data.m[key]]

(* `if value` in place of `if value is not None` *)
GetOptionalFloat_Truthy(data, key) ==
    LET it == DictGet(data, key)
    IN  IF it.exc # "none" THEN it
        ELSE IF it.val.t = "null" \/ it.val = JNum(0) THEN Ok(PyNone)
        ELSE ToFloat(it.val)

GetOptionalFloat(data, key) ==
    LET it == DictGet(data, key)
    IN  IF it.exc # "none" THEN it
        ELSE IF it.val.t = "null" THEN Ok(PyNone)
        ELSE ToFloat(it.val)

(* a value int() rejects taken as an absent field *)
GetOptionalInt_AbsentOnError(data, key) ==
    LET it == DictGet(data, key)
    IN  IF it.exc # "none" THEN it
        ELSE IF it.val.t = "null" \/ ToInt(it.val).exc # "none" THEN Ok(PyNone)
        ELSE ToInt(it.val)

GetOptionalInt(data, key) ==
    LET it == DictGet(data, key)
    IN  IF it.exc # "none" THEN it
        ELSE IF it.val.t = "null" THEN Ok(PyNone)
        ELSE ToInt(it.val)

(* the first exception among results evaluated in order, or "none" *)
RECURSIVE FirstExc(_, _)
FirstExc(rs, i) ==
    IF i > Len(rs) THEN "none"
    ELSE IF rs[i].exc # "none" THEN rs[i].exc
    ELSE FirstExc(rs, i + 1)

(* ZoneInfo(config.timezone) outside any try block: no fallback *)
JsonToWeatherSample_NoFallback(data, tzname, now) ==
    LET ts == [t |-> now, tz |-> tzname]
        req == [i \in 1..Len(RequiredKeys) |-> RequiredFloat(data, RequiredKeys[i])]
        opt == [i \in 1..Len(OptionalKeys) |->
                   IF i <= 3 THEN GetOptionalFloat(data, OptionalKeys[i])
                   ELSE GetOptionalInt(data, OptionalKeys[i])]
        e1 == FirstExc(req, 1)
        e2 == FirstExc(opt, 1)
    IN  IF tzname \notin KnownTimezones THEN Raise("KeyError")
        ELSE IF e1 # "none" THEN Raise(e1)
        ELSE IF e2 # "none" THEN Raise(e2)
        ELSE WeatherSample(ts, [i \in 1..Len(RequiredKeys) |-> req[i].val],
                           [i \in 1..Len(OptionalKeys) |-> opt[i].val])

JsonToWeatherSample(data, tzname, now) ==
    LET ts == [t |-> now, tz |-> ResolveZone(tzname)]
        req == [i \in 1..Len(RequiredKeys) |-> RequiredFloat(data, RequiredKeys[i])]
        opt == [i \in 1..Len(OptionalKeys) |->
                   IF i <= 3 THEN GetOptionalFloat(data, OptionalKeys[i])
                   ELSE GetOptionalInt(data, OptionalKeys[i])]
        e1 == FirstExc(req, 1)
        e2 == FirstExc(opt, 1)
    IN  IF e1 # "none" THEN Raise(e1)
        ELSE IF e2 # "none" THEN Raise(e2)
        ELSE WeatherSample(ts, [i \in 1..Len(RequiredKeys) |-> req[i].val],
                           [i \in 1..Len(OptionalKeys) |-> opt[i].val])

(* payload -> Record or exception: the body of _on_message's try block up to
   the call of the handler *)
Decode(p, tzname, now) ==
    LET j == ParseJson(p)
    IN  IF j.exc # "none" THEN j ELSE JsonToWeatherSample(j.val, tzname, now)

(***************************************************************************)
(* Payloads the broker delivers. Each is the raw message body: whether it  *)
(* is UTF-8, whether it is well-formed JSON, and the JSON value it holds.  *)
(***************************************************************************)
Fields7 ==
    ("temperature" :> JNum(255)) @@ ("humidity" :> JNum(600)) @@
    ("co2" :> JNum(5000)) @@ ("flammable_gas" :> JNum(1000)) @@
    ("toxic_gas" :> JNum(800)) @@ ("uv_index" :> JNum(60)) @@
    ("battery" :> JNum(38))

Gps5 ==
    ("latitude" :> JNum(-199)) @@ ("longitude" :> JNum(-440)) @@
    ("altitude" :> JNum(7500)) @@ ("satellites" :> JNum(100)) @@
    ("fix_quality" :> JNum(10))

Object(m) == [enc |-> "utf8", syntax |-> "json", top |-> "object", m |-> m]

Without(m, key) == [k \in (DOMAIN m) \ {key} |-> m[k]]

With(m, key, x) == (key :> x) @@ m

NoFields == [k \in {} |-> JNull]

Payloads ==
    << Object(Fields7),                                    \* valid, no GPS
       Object(Gps5 @@ Fields7),                            \* valid, all GPS
       Object(With(Fields7, "temperature", JNum(2000))),   \* temperature 200.0
       Object(With(Fields7, "humidity", JNum(1010))),      \* humidity 101.0
       Object(Without(Fields7, "battery")),                \* missing key
       Object(With(Fields7, "co2", JStrText)),             \* non-numeric
       Object(With(Fields7, "satellites", JInf)),          \* int(inf)
       [enc |-> "utf8", syntax |-> "json", top |-> "array", m |-> NoFields],
       [enc |-> "utf8", syntax |-> "malformed", top |-> "none", m |-> NoFields],
       [enc |-> "invalid", syntax |-> "none", top |-> "none", m |-> NoFields] >>

(***************************************************************************)
(* A wider table of message bodies for the decoder. The first entries are  *)
(* Payloads; then every required key left out or holding each kind of JSON *)
(* value, temperature and humidity around their bounds, the GPS keys       *)
(* given, null or left out, and each GPS key holding each kind of JSON     *)
(* value.                                                                  *)
(***************************************************************************)
RequiredValues ==
    << JInf, JStrInt(20), JStrDec(255), JStrText, JBool(TRUE), JBool(FALSE),
       JNull, JArr, JObj >>

OneRequired ==
    [i \in 1..(Len(RequiredKeys) * (Len(RequiredValues) + 1)) |->
        LET key == RequiredKeys[((i - 1) \div (Len(RequiredValues) + 1)) + 1]
            c == (i - 1) % (Len(RequiredValues) + 1)
        IN  Object(IF c = 0 THEN Without(Fields7, key)
                   ELSE With(Fields7, key, RequiredValues[c]))]

RangeValues ==
    << JNum(-501), JNum(-500), JNum(-1), JNum(0), JNum(1000), JNum(1001) >>

TemperatureHumidity ==
    [i \in 1..(Len(RangeValues) * Len(RangeValues)) |->
        Object(With(With(Fields7, "temperature",
                         RangeValues[((i - 1) \div Len(RangeValues)) + 1]),
                    "humidity", RangeValues[((i - 1) % Len(RangeValues)) + 1]))]

(* a GPS key left out (0), null (1) or holding its number (2) *)
GpsKey(key, c) ==
    IF c = 0 THEN NoFields
    ELSE key :> (IF c = 1 THEN JNull ELSE Gps5[key])

(* every combination for the first four keys; the fifth is chosen so that
   it takes each of its three forms next to each form of every other key *)
GpsPatterns ==
    [i \in 1..(3 ^ (Len(OptionalKeys) - 1)) |->
        LET c(j) == ((i - 1) \div (3 ^ (j - 1))) % 3
        IN  Object(GpsKey("latitude", c(1)) @@ GpsKey("longitude", c(2)) @@
                   GpsKey("altitude", c(3)) @@ GpsKey("satellites", c(4)) @@
                   GpsKey("fix_quality", (c(1) + c(2) + c(3) + c(4)) % 3) @@
                   Fields7)]

OptionalValues ==
    << JNum(0), JNum(75), JNum(-75), JInf, JStrInt(70), JStrDec(75), JStrText,
       JBool(TRUE), JNull, JArr, JObj >>

OneOptional ==
    [i \in 1..(Len(OptionalKeys) * Len(OptionalValues)) |->
        Object(With(Gps5 @@ Fields7,
                    OptionalKeys[((i - 1) \div Len(OptionalValues)) + 1],
                    OptionalValues[((i - 1) % Len(OptionalValues)) + 1]))]

Inputs ==
    Payloads \o OneRequired \o TemperatureHumidity \o GpsPatterns \o OneOptional

(***************************************************************************)
(* influx_client.py: Record -> point. A point has an event time, no tags   *)
(* and a field map.                                                        *)
(***************************************************************************)
(* "if sample.gps_latitude:" in place of "is not None": 0 is left out *)
OptField_Truthy(name, x) ==
    IF x.k # "none" /\ x.v # 0 THEN name :> x ELSE NoFields

OptField(name, x) == IF x.k # "none" THEN name :> x ELSE NoFields

SampleToPoint(s) ==
    [time |-> s.timestamp,
     tags |-> {},
     fields |->
        ("temperature_c" :> s.temperature_c) @@
        ("humidity_pct" :> s.humidity_pct) @@
        ("air_quality_co2_ppm" :> s.air_quality_co2_ppm) @@
        ("flammable_gas_ppm" :> s.flammable_gas_ppm) @@
        ("toxic_gas_ppm" :> s.toxic_gas_ppm) @@
        ("uv_index" :> s.uv_index) @@
        ("battery_voltage" :> s.battery_voltage) @@
        OptField("gps_latitude", s.gps_latitude) @@
        OptField("gps_longitude", s.gps_longitude) @@
        OptField("gps_altitude_m", s.gps_altitude_m) @@
        OptField("gps_satellites", s.gps_satellites) @@
        OptField("gps_fix_quality", s.gps_fix_quality)]

(***************************************************************************)
(* The except clauses.                                                     *)
(***************************************************************************)
(* the catch-all clause left out *)
OnMessageCatch_NoCatchAll(e) ==
    \/ IsInstance(e, "JSONDecodeError")
    \/ IsInstance(e, "KeyError") \/ IsInstance(e, "TypeError")
    \/ IsInstance(e, "ValueError")

(* mqtt_client.py _on_message: JSONDecodeError; KeyError, TypeError,
   ValueError; Exception *)
OnMessageCatch(e) ==
    \/ IsInstance(e, "JSONDecodeError")
    \/ IsInstance(e, "KeyError") \/ IsInstance(e, "TypeError")
    \/ IsInstance(e, "ValueError")
    \/ IsInstance(e, "Exception")

(* only the gateway's own RuntimeError caught *)
HandlerCatch_Narrow(e) == IsInstance(e, "RuntimeError")

(* main.py _on_sample_received: except Exception *)
HandlerCatch(e) == IsInstance(e, "Exception")

(* only connection errors caught *)
StopCatch_Narrow(e) == IsInstance(e, "ConnectionError")

(* main.py shutdown: except Exception around mqtt_client.stop() *)
StopCatch(e) == IsInstance(e, "Exception")

(* only connection errors caught *)
CloseCatch_Narrow(e) == IsInstance(e, "ConnectionError")

(* main.py shutdown: except Exception around influx_client.close() *)
CloseCatch(e) == IsInstance(e, "Exception")

(* only the gateway's own RuntimeError caught *)
SetupCountCatch_Narrow(e) == IsInstance(e, "RuntimeError")

(* main.py setup: except Exception around query_count() *)
SetupCountCatch(e) == IsInstance(e, "Exception")

(* main.py main: except ConnectionError, except Exception *)
MainCatch(e) == IsInstance(e, "ConnectionError") \/ IsInstance(e, "Exception")

(* the handler called a second time with the same Record *)
HandlerCalls_Twice(d) == IF d.exc = "none" THEN <<d.val, d.val>> ELSE <<>>

(* the handler called whether or not decoding raised *)
HandlerCalls_NoValidate(d) == <<d.val>>

(* _on_message: the handler is called once with the Record when decoding
   succeeded, and not at all when it raised *)
HandlerCalls(d) == IF d.exc = "none" THEN <<d.val>> ELSE <<>>

StatsEvery == 10

(* config.py MQTTConfig: the topic and the QoS of the subscription *)
MqttTopic == "pse/weather_system/sensors"

MqttQos == 1

(* client.subscribe(self.config.topic, qos=self.config.qos) and whether its
   result was MQTT_ERR_SUCCESS *)
Subscribe(ok) == [topic |-> MqttTopic, qos |-> MqttQos, ok |-> ok]

(* one _on_connect(rc): "ok" for rc = 0, and the subscribe calls it made *)
Connack(rc, subs) == [rc |-> rc, subscribes |-> subs]

(* no call has been made on the gateway by a direct user *)
NoCall ==
    [n |-> 0, op |-> "none", size |-> 0, was |-> "none", exc |-> "none",
     requests |-> 0, submitted |-> 0, ret |-> PyNone, acked |-> 0,
     wrote |-> <<>>]

(***************************************************************************)
(* State.                                                                  *)
(***************************************************************************)
VARIABLES
    mainPc,             \* main thread: where main() / setup / run / shutdown is
    sdCaller,           \* who called the running shutdown(): "run" or "main"
    exit_code,          \* the status the process exits with
    samples_received, samples_written, samples_failed,
    shutdown_requested,
    influx_client,      \* app.influx_client is not None
    mqtt_client,        \* app.mqtt_client is not None
    ix_client,          \* InfluxClient._client: "none", "open", "closed"
    is_connected,       \* MQTTClient._is_connected
    thread,             \* paho's loop thread: "none", "running", "stopped", "crashed"
    link,               \* transport: "down", "connecting", "up", "closed"
    subscribed,         \* the broker holds this session's subscription
    drops,              \* refused handshakes and lost connections so far
    bgPc,               \* loop thread: "idle" or where the handler is
    cur,                \* the Record the handler is working on
    store,              \* the points the store holds, in write order
    arrived,            \* the payloads delivered so far (indices of Inputs)
    handed,             \* the Records passed to the handler so far
    sdLog,              \* what the current shutdown() call has done so far
    sdCalls,            \* shutdown() calls that have returned
    reported,           \* the latest statistics report
    signals,            \* termination signals delivered so far
    connack,            \* the latest _on_connect: its rc and its subscribe calls
    timezone,           \* config.timezone, read from the environment at import
    lastCall            \* the latest call a direct user of the gateway made

coordVars ==
    <<samples_received, samples_written, samples_failed, shutdown_requested,
      influx_client, mqtt_client>>

counters == <<samples_received, samples_written, samples_failed>>

mainVars == <<mainPc, sdCaller, exit_code, sdLog, sdCalls>>

mqttVars == <<is_connected, thread, link, subscribed, drops>>

bgVars == <<bgPc, cur, arrived, handed>>

vars ==
    <<mainPc, sdCaller, exit_code, samples_received, samples_written,
      samples_failed, shutdown_requested, influx_client, mqtt_client,
      ix_client, is_connected, thread, link, subscribed, drops, bgPc, cur,
      store, arrived, handed, sdLog, sdCalls, reported, signals, connack,
      timezone, lastCall>>

Init ==
    /\ mainPc = "setup_influx"
    /\ sdCaller = "none"
    /\ exit_code = 0
    /\ samples_received = 0
    /\ samples_written = 0
    /\ samples_failed = 0
    /\ shutdown_requested = FALSE
    /\ influx_client = FALSE
    /\ mqtt_client = FALSE
    /\ ix_client = "none"
    /\ is_connected = FALSE
    /\ thread = "none"
    /\ link = "down"
    /\ subscribed = FALSE
    /\ drops = 0
    /\ bgPc = "idle"
    /\ cur = PyNone
    /\ store = <<>>
    /\ arrived = <<>>
    /\ handed = <<>>
    /\ sdLog = <<>>
    /\ sdCalls = 0
    /\ reported = [n |-> 0, by |-> "none", received |-> 0, written |-> 0,
                   failed |-> 0, success |-> 0, racing |-> FALSE]
    /\ signals = 0
    /\ connack = Connack("none", <<>>)
    /\ timezone = ConfigTimezone
    /\ lastCall = NoCall

(***************************************************************************)
(* Main thread: main(), setup(), run().                                    *)
(***************************************************************************)
(* main()'s except clauses logging the error without calling sys.exit(1) *)
MainRaise_NoExit(e) ==
    /\ mainPc' = "main_finally"
    /\ exit_code' = exit_code

(* an exception leaves main()'s try block: both except clauses call
   sys.exit(1), and the finally block runs in every case *)
MainRaise(e) ==
    /\ mainPc' = "main_finally"
    /\ exit_code' = 1

(* setup() going on to the MQTT client after a failed storage connect() *)
SetupInflux_Continues ==
    /\ mainPc = "setup_influx"
    /\ influx_client' = TRUE
    /\ \E ok \in BOOLEAN :
          /\ ix_client' = IF ok THEN "open" ELSE "none"
          /\ mainPc' = "setup_count"
          /\ UNCHANGED exit_code
    /\ UNCHANGED <<sdCaller, sdLog, sdCalls, counters, shutdown_requested,
                   mqtt_client, mqttVars, bgVars, store, reported, signals, connack, timezone,
                   lastCall>>

(* setup() keeping the connected gateway in a local variable only *)
SetupInflux_NotKept ==
    /\ mainPc = "setup_influx"
    /\ influx_client' = FALSE
    /\ \E ok \in BOOLEAN :
          IF ok
          THEN /\ ix_client' = "open"
               /\ mainPc' = "setup_count"
               /\ UNCHANGED exit_code
          ELSE /\ ix_client' = "none"
               /\ MainRaise("ConnectionError")
    /\ UNCHANGED <<sdCaller, sdLog, sdCalls, counters, shutdown_requested,
                   mqtt_client, mqttVars, bgVars, store, reported, signals,
                   connack, timezone, lastCall>>

(* setup(): InfluxClient(config.influxdb); connect() *)
SetupInflux ==
    /\ mainPc = "setup_influx"
    /\ influx_client' = TRUE
    /\ \E ok \in BOOLEAN :
          IF ok
          THEN /\ ix_client' = "open"
               /\ mainPc' = "setup_count"
               /\ UNCHANGED exit_code
          ELSE /\ ix_client' = "none"
               /\ MainRaise("ConnectionError")
    /\ UNCHANGED <<sdCaller, sdLog, sdCalls, counters, shutdown_requested,
                   mqtt_client, mqttVars, bgVars, store, reported, signals, connack, timezone,
                   lastCall>>

(* setup(): the best-effort query_count() in its try block. query_count()
   raises RuntimeError without a connection and the store's error when the
   query fails; an exception the except clause catches is logged there. *)
SetupQueryCount ==
    /\ mainPc = "setup_count"
    /\ \E e \in (IF ix_client = "none" THEN {"RuntimeError"}
                  ELSE {"none", "StoreError"}) :
          IF e = "none"
          THEN mainPc' = "setup_mqtt" /\ UNCHANGED exit_code
          ELSE IF SetupCountCatch(e)
          THEN mainPc' = "setup_warn" /\ UNCHANGED exit_code
          ELSE MainRaise(e)
    /\ UNCHANGED <<sdCaller, sdLog, sdCalls, coordVars, ix_client,
                   mqttVars, bgVars, store, reported, signals, connack,
                   timezone, lastCall>>

(* setup(): the except clause of the count query logs a warning, and setup()
   goes on *)
SetupCountWarn ==
    /\ mainPc = "setup_warn"
    /\ mainPc' = "setup_mqtt"
    /\ UNCHANGED <<sdCaller, exit_code, sdLog, sdCalls, coordVars, ix_client,
                   mqttVars, bgVars, store, reported, signals, connack,
                   timezone, lastCall>>

(* setup(): MQTTClient(config.mqtt, self._on_sample_received) *)
SetupMqttNew ==
    /\ mainPc = "setup_mqtt"
    /\ mqtt_client' = TRUE
    /\ is_connected' = FALSE
    /\ mainPc' = "setup_connect"
    /\ UNCHANGED <<sdCaller, exit_code, sdLog, sdCalls, counters,
                   shutdown_requested, influx_client, ix_client, thread, link,
                   subscribed, drops, bgVars, store, reported, signals, connack, timezone,
                   lastCall>>

(* MQTTClient.connect(): the transport connects, or ConnectionError *)
SetupMqttConnect ==
    /\ mainPc = "setup_connect"
    /\ \E ok \in BOOLEAN :
          IF ok
          THEN /\ link' = "connecting"
               /\ mainPc' = "setup_start"
               /\ UNCHANGED exit_code
          ELSE /\ link' = "down"
               /\ MainRaise("ConnectionError")
    /\ UNCHANGED <<sdCaller, sdLog, sdCalls, coordVars, ix_client,
                   is_connected, thread, subscribed, drops, bgVars, store,
                   reported, signals, connack, timezone, lastCall>>

(* MQTTClient.start(): loop_start() creates the loop thread *)
SetupMqttStart ==
    /\ mainPc = "setup_start"
    /\ thread' = "running"
    /\ mainPc' = "run_loop"
    /\ UNCHANGED <<sdCaller, exit_code, sdLog, sdCalls, coordVars, ix_client,
                   is_connected, link, subscribed, drops, bgVars, store,
                   reported, signals, connack, timezone, lastCall>>

(* run(): the loop ends once the flag is seen; finally: self.shutdown().
   While the flag is false the thread sleeps, which changes nothing. *)
RunPoll ==
    /\ mainPc = "run_loop"
    /\ shutdown_requested
    /\ mainPc' = "sd_flag"
    /\ sdCaller' = "run"
    /\ UNCHANGED <<exit_code, sdLog, sdCalls, coordVars, ix_client, mqttVars,
                   bgVars, store, reported, signals, connack, timezone, lastCall>>

(* main(): finally: _APP_INSTANCE.shutdown() *)
MainFinally ==
    /\ mainPc = "main_finally"
    /\ mainPc' = "sd_flag"
    /\ sdCaller' = "main"
    /\ UNCHANGED <<exit_code, sdLog, sdCalls, coordVars, ix_client, mqttVars,
                   bgVars, store, reported, signals, connack, timezone, lastCall>>

(* signal_handler() stopping the MQTT client and closing the storage itself *)
Signal_ShutsDown ==
    /\ mainPc # "exited"
    /\ signals < MaxSignals
    /\ signals' = signals + 1
    /\ shutdown_requested' = TRUE
    /\ thread' = IF thread = "running" THEN "stopped" ELSE thread
    /\ ix_client' = IF ix_client = "open" THEN "closed" ELSE ix_client
    /\ UNCHANGED <<mainVars, counters, influx_client, mqtt_client,
                   is_connected, link, subscribed, drops, bgVars, store,
                   reported, lastCall, connack, timezone>>

(* signal_handler(): _APP_INSTANCE.shutdown_requested = True *)
Signal ==
    /\ mainPc # "exited"
    /\ signals < MaxSignals
    /\ signals' = signals + 1
    /\ shutdown_requested' = TRUE
    /\ UNCHANGED <<mainVars, counters, influx_client, mqtt_client, ix_client,
                   mqttVars, bgVars, store, reported, lastCall, connack, timezone>>

(***************************************************************************)
(* _show_statistics(): reads the three counters and reports them.          *)
(***************************************************************************)
SuccessRate(w, r) == IF r > 0 THEN (2000 * w + r) \div (2 * r) ELSE 0

ShowStatistics(by, r, w, f) ==
    reported' = [n |-> reported.n + 1, by |-> by, received |-> r,
                 written |-> w, failed |-> f, success |-> SuccessRate(w, r),
                 racing |-> (by = "main" /\ bgPc # "idle")]

(***************************************************************************)
(* shutdown() and MQTTClient.stop(), InfluxClient.close().                 *)
(***************************************************************************)
ShutdownPcs == {"sd_flag", "sd_stats", "sd_stop", "stop_loop", "stop_disc",
                "sd_close", "sd_done"}

(* an exception leaves shutdown(): out of run() into main()'s try block, or
   out of main()'s finally block *)
ShutdownRaise(e) ==
    IF sdCaller = "run" THEN MainRaise(e)
    ELSE mainPc' = "exited" /\ exit_code' = 1

(* shutdown() returning at once when the flag is already set *)
ShutdownBegin_ReturnsIfRequested ==
    /\ mainPc = "sd_flag"
    /\ shutdown_requested' = TRUE
    /\ sdLog' = <<>>
    /\ mainPc' = IF shutdown_requested THEN "sd_done" ELSE "sd_stats"
    /\ UNCHANGED <<sdCaller, exit_code, sdCalls, counters, influx_client,
                   mqtt_client, ix_client, mqttVars, bgVars, store, reported,
                   signals, connack, timezone, lastCall>>

(* shutdown(): if not self.shutdown_requested: ... = True *)
ShutdownBegin ==
    /\ mainPc = "sd_flag"
    /\ shutdown_requested' = TRUE
    /\ sdLog' = <<>>
    /\ mainPc' = "sd_stats"
    /\ UNCHANGED <<sdCaller, exit_code, sdCalls, counters, influx_client,
                   mqtt_client, ix_client, mqttVars, bgVars, store, reported,
                   signals, connack, timezone, lastCall>>

(* shutdown() zeroing the counters once the final report is out *)
ShutdownStats_Resets ==
    /\ mainPc = "sd_stats"
    /\ ShowStatistics("main", samples_received, samples_written, samples_failed)
    /\ sdLog' = Append(sdLog, "stats")
    /\ mainPc' = "sd_stop"
    /\ samples_received' = 0 /\ samples_written' = 0 /\ samples_failed' = 0
    /\ UNCHANGED <<sdCaller, exit_code, sdCalls, shutdown_requested,
                   influx_client, mqtt_client, ix_client, mqttVars, bgVars,
                   store, signals, connack, timezone, lastCall>>

(* shutdown(): self._show_statistics() *)
ShutdownStats ==
    /\ mainPc = "sd_stats"
    /\ ShowStatistics("main", samples_received, samples_written, samples_failed)
    /\ sdLog' = Append(sdLog, "stats")
    /\ mainPc' = "sd_stop"
    /\ UNCHANGED <<sdCaller, exit_code, sdCalls, coordVars, ix_client,
                   mqttVars, bgVars, store, signals, connack, timezone, lastCall>>

(* shutdown(): if self.mqtt_client is not None: self.mqtt_client.stop() *)
ShutdownStop ==
    /\ mainPc = "sd_stop"
    /\ IF mqtt_client
       THEN /\ sdLog' = Append(sdLog, "stop")
            /\ mainPc' = "stop_loop"
       ELSE /\ sdLog' = sdLog
            /\ mainPc' = "sd_close"
    /\ UNCHANGED <<sdCaller, exit_code, sdCalls, coordVars, ix_client,
                   mqttVars, bgVars, store, reported, signals, connack, timezone, lastCall>>

(* stop() going on without loop_stop(): the loop thread keeps running *)
StopLoopStop_NoJoin ==
    /\ mainPc = "stop_loop"
    /\ mainPc' = "stop_disc"
    /\ UNCHANGED <<sdCaller, exit_code, sdLog, sdCalls, coordVars, ix_client,
                   mqttVars, bgVars, store, reported, signals, connack, timezone, lastCall>>

(* stop(): self.client.loop_stop(). paho sets the terminate flag and joins
   the loop thread, with no timeout: it returns when the thread has left its
   current callback and ended. With no thread it returns an error code. *)
StopLoopStop ==
    /\ mainPc = "stop_loop"
    /\ (thread = "running" => bgPc = "idle")
    /\ thread' = IF thread = "running" THEN "stopped" ELSE thread
    /\ mainPc' = "stop_disc"
    /\ UNCHANGED <<sdCaller, exit_code, sdLog, sdCalls, coordVars, ix_client,
                   is_connected, link, subscribed, drops, bgVars, store,
                   reported, signals, connack, timezone, lastCall>>

(* stop(): self.client.disconnect(); self._is_connected = False. When
   disconnect() raises, the flag is not reset and shutdown()'s except clause
   takes over. *)
StopDisconnect ==
    /\ mainPc = "stop_disc"
    /\ \E e \in {"none", "OSError"} :
          IF e = "none"
          THEN /\ is_connected' = FALSE
               /\ link' = "closed"
               /\ subscribed' = FALSE
               /\ mainPc' = "sd_close"
               /\ UNCHANGED exit_code
          ELSE /\ UNCHANGED <<is_connected, link, subscribed>>
               /\ IF StopCatch(e)
                  THEN mainPc' = "sd_close" /\ UNCHANGED exit_code
                  ELSE ShutdownRaise(e)
    /\ UNCHANGED <<sdCaller, sdLog, sdCalls, coordVars, ix_client, thread,
                   drops, bgVars, store, reported, signals, connack, timezone, lastCall>>

(* shutdown(): if self.influx_client is not None: self.influx_client.close();
   close(): if self._client: self._client.close(). The reference is kept. *)
ShutdownClose ==
    /\ mainPc = "sd_close"
    /\ IF ~influx_client
       THEN /\ mainPc' = "sd_done"
            /\ UNCHANGED <<sdLog, ix_client, exit_code>>
       ELSE /\ sdLog' = Append(sdLog, "close")
            /\ IF ix_client = "none"
               THEN /\ mainPc' = "sd_done"
                    /\ UNCHANGED <<ix_client, exit_code>>
               ELSE \E e \in {"none", "StoreError"} :
                       /\ ix_client' \in (IF e = "none" THEN {"closed"}
                                          ELSE {ix_client, "closed"})
                       /\ IF e = "none" \/ CloseCatch(e)
                          THEN mainPc' = "sd_done" /\ UNCHANGED exit_code
                          ELSE ShutdownRaise(e)
    /\ UNCHANGED <<sdCaller, sdCalls, coordVars, mqttVars, bgVars, store,
                   reported, signals, connack, timezone, lastCall>>

(* shutdown() returns: to main() when run() called it, and to the end of the
   process when main()'s finally block called it *)
ShutdownReturn ==
    /\ mainPc = "sd_done"
    /\ sdCalls' = sdCalls + 1
    /\ mainPc' = IF sdCaller = "run" THEN "main_finally" ELSE "exited"
    /\ UNCHANGED <<sdCaller, exit_code, sdLog, coordVars, ix_client, mqttVars,
                   bgVars, store, reported, signals, connack, timezone, lastCall>>

(***************************************************************************)
(* Loop thread: paho's callbacks. The thread runs one callback at a time.  *)
(***************************************************************************)
LoopIdle == thread = "running" /\ bgPc = "idle" /\ mainPc # "exited"

(* the subscribe issued on the first connection only, not on a reconnect *)
OnConnect_SubscribesFirstTime ==
    /\ LoopIdle
    /\ link = "connecting"
    /\ \E rcOk \in BOOLEAN, subOk \in BOOLEAN :
          IF rcOk
          THEN /\ is_connected' = TRUE
               /\ link' = "up"
               /\ subscribed' = (drops = 0 /\ subOk)
               /\ connack' = Connack("ok", IF drops = 0
                                           THEN <<Subscribe(subOk)>>
                                           ELSE <<>>)
               /\ UNCHANGED drops
          ELSE /\ drops < MaxDisconnects
               /\ is_connected' = FALSE
               /\ link' = "connecting"
               /\ subscribed' = FALSE
               /\ connack' = Connack("refused", <<>>)
               /\ drops' = drops + 1
    /\ UNCHANGED <<mainVars, coordVars, ix_client, thread, bgVars, store,
                   reported, signals, lastCall, timezone>>

(* _on_connect(rc) giving the session up when the subscribe fails *)
OnConnect_DropsUnsubscribed ==
    /\ LoopIdle
    /\ link = "connecting"
    /\ \E rcOk \in BOOLEAN, subOk \in BOOLEAN :
          IF rcOk
          THEN /\ is_connected' = subOk
               /\ link' = IF subOk THEN "up" ELSE "closed"
               /\ subscribed' = subOk
               /\ connack' = Connack("ok", <<Subscribe(subOk)>>)
               /\ UNCHANGED drops
          ELSE /\ drops < MaxDisconnects
               /\ is_connected' = FALSE
               /\ link' = "connecting"
               /\ subscribed' = FALSE
               /\ connack' = Connack("refused", <<>>)
               /\ drops' = drops + 1
    /\ UNCHANGED <<mainVars, coordVars, ix_client, thread, bgVars, store,
                   reported, signals, lastCall, timezone>>

(* _on_connect(rc): on success set the flag and subscribe; the subscribe's
   result is only logged. On failure clear the flag; paho retries. *)
OnConnect ==
    /\ LoopIdle
    /\ link = "connecting"
    /\ \E rcOk \in BOOLEAN, subOk \in BOOLEAN :
          IF rcOk
          THEN /\ is_connected' = TRUE
               /\ link' = "up"
               /\ subscribed' = subOk
               /\ connack' = Connack("ok", <<Subscribe(subOk)>>)
               /\ UNCHANGED drops
          ELSE /\ drops < MaxDisconnects
               /\ is_connected' = FALSE
               /\ link' = "connecting"
               /\ subscribed' = FALSE
               /\ connack' = Connack("refused", <<>>)
               /\ drops' = drops + 1
    /\ UNCHANGED <<mainVars, coordVars, ix_client, thread, bgVars, store,
                   reported, signals, lastCall, timezone>>

(* _on_disconnect(rc): clear the flag; paho reconnects by itself *)
OnDisconnect ==
    /\ LoopIdle
    /\ link = "up"
    /\ drops < MaxDisconnects
    /\ is_connected' = FALSE
    /\ subscribed' = FALSE
    /\ link' = "connecting"
    /\ drops' = drops + 1
    /\ UNCHANGED <<mainVars, coordVars, ix_client, thread, bgVars, store,
                   reported, signals, connack, timezone, lastCall>>

(* an exception reaches _on_message's except clauses: caught and logged, or
   it leaves the callback and ends the loop thread *)
OnMessageExcept(e) ==
    /\ bgPc' = "idle"
    /\ cur' = PyNone
    /\ thread' = IF OnMessageCatch(e) THEN thread ELSE "crashed"

(* the handler calls write_sample again after an error *)
HandlerExcept_Retry(e) == bgPc' = "h_call" /\ UNCHANGED <<cur, thread>>

(* an exception reaches _on_sample_received's except clause *)
HandlerExcept(e) ==
    IF HandlerCatch(e)
    THEN bgPc' = "h_exc" /\ UNCHANGED <<cur, thread>>
    ELSE OnMessageExcept(e)

(* _on_sample_received(sample), up to the call of write_sample *)
OnSampleReceived(sample) ==
    /\ samples_received' = samples_received + 1
    /\ IF ~influx_client
       THEN /\ samples_failed' = samples_failed + 1
            /\ bgPc' = "idle"
            /\ cur' = PyNone
       ELSE /\ samples_failed' = samples_failed
            /\ bgPc' = "h_call"
            /\ cur' = sample

(* _on_message(msg) for the i-th message body of the table: decode, then
   forward the Record to the handler *)
OnMessageOf(i) ==
    /\ LoopIdle
    /\ link = "up"
    /\ subscribed
    /\ LET d == Decode(Inputs[i], timezone, Len(arrived) + 1)
           calls == HandlerCalls(d)
       IN  /\ arrived' = Append(arrived, i)
           /\ handed' = handed \o calls
           /\ IF calls # <<>>
              THEN /\ OnSampleReceived(calls[1])
                   /\ UNCHANGED thread
              ELSE /\ OnMessageExcept(d.exc)
                   /\ UNCHANGED <<samples_received, samples_failed>>
    /\ UNCHANGED <<mainVars, samples_written, shutdown_requested,
                   influx_client, mqtt_client, ix_client, is_connected, link,
                   subscribed, drops, store, reported, signals, connack, timezone, lastCall>>

(* the broker delivers one of Payloads *)
OnMessage ==
    /\ Len(arrived) < MaxMsgs
    /\ \E i \in 1..Len(Payloads) : OnMessageOf(i)

(* write_sample(sample): if not self._client: raise RuntimeError; otherwise
   the point is built and its submission to the store begins *)
WriteBegin ==
    /\ thread = "running" /\ mainPc # "exited"
    /\ bgPc = "h_call"
    /\ IF ix_client = "none"
       THEN HandlerExcept("RuntimeError")
       ELSE bgPc' = "h_inwrite" /\ UNCHANGED <<cur, thread>>
    /\ UNCHANGED <<mainVars, coordVars, ix_client, is_connected, link,
                   subscribed, drops, arrived, handed, store, reported,
                   signals, connack, timezone, lastCall>>

(* self._client.write(record=point) returns or raises; write_sample logs and
   re-raises. The call has no timeout: it may also never return. *)
WriteEnd ==
    /\ thread = "running" /\ mainPc # "exited"
    /\ bgPc = "h_inwrite"
    /\ \E ok \in BOOLEAN :
          IF ok
          THEN /\ store' = Append(store, SampleToPoint(cur))
               /\ bgPc' = "h_ok"
               /\ UNCHANGED <<cur, thread>>
          ELSE /\ store' = store
               /\ HandlerExcept("StoreError")
    /\ UNCHANGED <<mainVars, coordVars, ix_client, is_connected, link,
                   subscribed, drops, arrived, handed, reported, signals, connack, timezone,
                   lastCall>>

(* _on_sample_received after the write returned: count it, log the summary
   and report the statistics on every tenth sample *)
HandlerWritten ==
    /\ thread = "running" /\ mainPc # "exited"
    /\ bgPc = "h_ok"
    /\ samples_written' = samples_written + 1
    /\ IF samples_received % StatsEvery = 0
       THEN ShowStatistics("handler", samples_received, samples_written + 1,
                           samples_failed)
       ELSE UNCHANGED reported
    /\ bgPc' = "idle"
    /\ cur' = PyNone
    /\ UNCHANGED <<mainVars, samples_received, samples_failed,
                   shutdown_requested, influx_client, mqtt_client, ix_client,
                   mqttVars, arrived, handed, store, signals, connack, timezone, lastCall>>

(* _on_sample_received's except clause: count the failure and log it *)
HandlerFailed ==
    /\ thread = "running" /\ mainPc # "exited"
    /\ bgPc = "h_exc"
    /\ samples_failed' = samples_failed + 1
    /\ bgPc' = "idle"
    /\ cur' = PyNone
    /\ UNCHANGED <<mainVars, samples_received, samples_written,
                   shutdown_requested, influx_client, mqtt_client, ix_client,
                   mqttVars, arrived, handed, store, reported, signals, connack, timezone,
                   lastCall>>

(***************************************************************************)
(* The system.                                                             *)
(***************************************************************************)
Next ==
    \/ SetupInflux \/ SetupQueryCount \/ SetupCountWarn \/ SetupMqttNew
    \/ SetupMqttConnect \/ SetupMqttStart \/ RunPoll \/ MainFinally \/ Signal
    \/ ShutdownBegin \/ ShutdownStats \/ ShutdownStop \/ StopLoopStop
    \/ StopDisconnect \/ ShutdownClose \/ ShutdownReturn
    \/ OnConnect \/ OnDisconnect \/ OnMessage
    \/ WriteBegin \/ WriteEnd \/ HandlerWritten \/ HandlerFailed

Spec == Init /\ [][Next]_vars

(***************************************************************************)
(* Progress. The interpreter schedules both threads, so each takes its     *)
(* next step when it has one. Nothing makes a signal, a broker event or a  *)
(* message arrive, and nothing makes the store answer a write: the write   *)
(* call in write_sample has no timeout.                                    *)
(***************************************************************************)
MainStep ==
    \/ SetupInflux \/ SetupQueryCount \/ SetupCountWarn \/ SetupMqttNew
    \/ SetupMqttConnect \/ SetupMqttStart \/ RunPoll \/ MainFinally
    \/ ShutdownBegin \/ ShutdownStats \/ ShutdownStop \/ StopLoopStop
    \/ StopDisconnect \/ ShutdownClose \/ ShutdownReturn

HandlerStep == WriteBegin \/ HandlerWritten \/ HandlerFailed

FairSpec == Spec /\ WF_vars(MainStep) /\ WF_vars(HandlerStep)

(***************************************************************************)
(* The ingestion path on its own: the system as setup() leaves it once the *)
(* broker has accepted the session and the subscription, receiving any     *)
(* message body of Inputs.                                                 *)
(***************************************************************************)
SetupDone ==
    /\ mainPc = "run_loop"
    /\ sdCaller = "none"
    /\ exit_code = 0
    /\ samples_received = 0
    /\ samples_written = 0
    /\ samples_failed = 0
    /\ shutdown_requested = FALSE
    /\ influx_client = TRUE
    /\ mqtt_client = TRUE
    /\ ix_client = "open"
    /\ is_connected = TRUE
    /\ thread = "running"
    /\ link = "up"
    /\ subscribed = TRUE
    /\ drops = 0
    /\ bgPc = "idle"
    /\ cur = PyNone
    /\ store = <<>>
    /\ arrived = <<>>
    /\ handed = <<>>
    /\ sdLog = <<>>
    /\ sdCalls = 0
    /\ reported = [n |-> 0, by |-> "none", received |-> 0, written |-> 0,
                   failed |-> 0, success |-> 0, racing |-> FALSE]
    /\ signals = 0
    /\ connack = Connack("ok", <<Subscribe(TRUE)>>)
    /\ lastCall = NoCall

(* ... with the default timezone *)
Ingesting == SetupDone /\ timezone = ConfigTimezone

(* the broker delivers any message body of Inputs *)
OnAnyMessage ==
    /\ Len(arrived) < MaxInputMsgs
    /\ \E i \in 1..Len(Inputs) : OnMessageOf(i)

IngestNext ==
    \/ OnAnyMessage
    \/ WriteBegin \/ WriteEnd \/ HandlerWritten \/ HandlerFailed

IngestSpec == Ingesting /\ [][IngestNext]_vars

(***************************************************************************)
(* The same path over a run long enough for the periodic report: the       *)
(* broker delivers the complete payload, Inputs[1], again and again, and   *)
(* the store accepts or rejects each write.                                *)
(***************************************************************************)
OnValidMessage ==
    /\ Len(arrived) < MaxStatsMsgs
    /\ OnMessageOf(1)

StatsNext ==
    \/ OnValidMessage
    \/ WriteBegin \/ WriteEnd \/ HandlerWritten \/ HandlerFailed

StatsSpec == Ingesting /\ [][StatsNext]_vars

(***************************************************************************)
(* The same path when a log call of the handler can raise. main.py sets up *)
(* a StreamHandler, whose emit() keeps its errors to itself; a filter or a *)
(* handler added to the root logger does not. The summary and the periodic *)
(* report are emitted inside the try block, after samples_written += 1.    *)
(***************************************************************************)
HandlerLogRaises ==
    /\ thread = "running" /\ mainPc # "exited"
    /\ bgPc = "h_ok"
    /\ samples_written' = samples_written + 1
    /\ HandlerExcept("OSError")
    /\ UNCHANGED <<mainVars, samples_received, samples_failed,
                   shutdown_requested, influx_client, mqtt_client, ix_client,
                   is_connected, link, subscribed, drops, arrived, handed,
                   store, reported, signals, connack, timezone, lastCall>>

LoggingNext ==
    \/ OnMessage
    \/ WriteBegin \/ WriteEnd \/ HandlerWritten \/ HandlerLogRaises
    \/ HandlerFailed

LoggingSpec == Ingesting /\ [][LoggingNext]_vars

(***************************************************************************)
(* The same path under any configured timezone: TZ in the environment  *)
(* may name a zone, or be no zone's name at all.                           *)
(***************************************************************************)
Timezones == {"America/Sao_Paulo", "UTC", "Mars/Olympus_Mons", ""}

AnyTimezone == SetupDone /\ timezone \in Timezones

ZoneNext ==
    \/ OnMessage
    \/ WriteBegin \/ WriteEnd \/ HandlerWritten \/ HandlerFailed

ZoneSpec == AnyTimezone /\ [][ZoneNext]_vars

(***************************************************************************)
(* The gateway on its own: a program that constructs an InfluxClient and   *)
(* calls its methods in any order, as src/test/test_influx.py does. There  *)
(* is no coordinator and no MQTT client.                                   *)
(***************************************************************************)
GatewayUser ==
    /\ mainPc = "gateway_user"
    /\ sdCaller = "none"
    /\ exit_code = 0
    /\ samples_received = 0
    /\ samples_written = 0
    /\ samples_failed = 0
    /\ shutdown_requested = FALSE
    /\ influx_client = FALSE
    /\ mqtt_client = FALSE
    /\ ix_client = "none"
    /\ is_connected = FALSE
    /\ thread = "none"
    /\ link = "down"
    /\ subscribed = FALSE
    /\ drops = 0
    /\ bgPc = "idle"
    /\ cur = PyNone
    /\ store = <<>>
    /\ arrived = <<>>
    /\ handed = <<>>
    /\ sdLog = <<>>
    /\ sdCalls = 0
    /\ reported = [n |-> 0, by |-> "none", received |-> 0, written |-> 0,
                   failed |-> 0, success |-> 0, racing |-> FALSE]
    /\ signals = 0
    /\ connack = Connack("none", <<>>)
    /\ timezone = ConfigTimezone
    /\ lastCall = NoCall

(* the Record the user stamps with event time t: WeatherSample(...), with
   the GPS fields given at odd times, the fix quality being 0 *)
UserRecord(t) ==
    WeatherSample([t |-> t, tz |-> ResolveZone(ConfigTimezone)],
                  << PyFloat(200 + t), PyFloat(600), PyFloat(5000),
                     PyFloat(1000), PyFloat(800), PyFloat(60), PyFloat(38) >>,
                  IF t % 2 = 1
                  THEN << PyFloat(-199), PyFloat(-440), PyFloat(7500),
                          PyInt(80), PyInt(0) >>
                  ELSE << PyNone, PyNone, PyNone, PyNone, PyNone >>).val

(* the event times of the points the store holds *)
Times(st) == {st[j].time.t : j \in 1..Len(st)}

(* the lists the user passes to write_samples_batch, as the event times of
   their Records: every Record is stamped with a time of its own *)
Batches ==
    {b \in UNION {[1..k -> (1..MaxTime) \ Times(store)] : k \in 0..MaxBatch} :
        \A i, j \in 1..Len(b) : i # j => b[i] # b[j]}

PointsOf(b) == [i \in 1..Len(b) |-> SampleToPoint(UserRecord(b[i]))]

(* the call returns ret or raises exc, having sent `requests` requests to
   the store, which accepted the points with the event times pts *)
Called(op, size, exc, requests, pts, ret) ==
    lastCall' = [n |-> lastCall.n + 1, op |-> op, size |-> size,
                 was |-> ix_client, exc |-> exc, requests |-> requests,
                 submitted |-> Len(pts), ret |-> ret,
                 acked |-> lastCall.acked + Len(pts),
                 wrote |-> IF Len(pts) > 0 THEN pts ELSE lastCall.wrote]

NotConnected(op, size) == Called(op, size, "RuntimeError", 0, <<>>, PyNone)

(* connect(): a new client object is assigned to _client, or the constructor
   raises, _client keeps its value and ConnectionError is raised *)
GatewayConnect ==
    /\ lastCall.n < MaxCalls
    /\ \E ok \in BOOLEAN :
          /\ ix_client' = IF ok THEN "open" ELSE ix_client
          /\ Called("connect", 0, IF ok THEN "none" ELSE "ConnectionError",
                    0, <<>>, PyNone)
    /\ UNCHANGED <<mainVars, coordVars, mqttVars, bgVars, store, reported,
                   signals, connack, timezone>>

(* InfluxClient.is_connected(): self._client is not None *)
GatewayIsConnected == ix_client # "none"

(* close(): if self._client: self._client.close(); nothing is caught *)
GatewayClose ==
    /\ lastCall.n < MaxCalls
    /\ IF ix_client = "none"
       THEN /\ UNCHANGED ix_client
            /\ Called("close", 0, "none", 0, <<>>, PyNone)
       ELSE \E e \in {"none", "StoreError"} :
               /\ ix_client' \in (IF e = "none" THEN {"closed"}
                                  ELSE {ix_client, "closed"})
               /\ Called("close", 0, e, 0, <<>>, PyNone)
    /\ UNCHANGED <<mainVars, coordVars, mqttVars, bgVars, store, reported,
                   signals, connack, timezone>>

(* write_sample(sample): one write of the one point; an error of the store
   is logged and raised again *)
GatewayWriteSample ==
    /\ lastCall.n < MaxCalls
    /\ \E t \in (1..MaxTime) \ Times(store) :
          IF ix_client = "none"
          THEN /\ UNCHANGED store
               /\ NotConnected("write_sample", 1)
          ELSE \E ok \in BOOLEAN :
                  IF ok
                  THEN /\ store' = store \o PointsOf(<<t>>)
                       /\ Called("write_sample", 1, "none", 1, <<t>>, PyNone)
                  ELSE /\ UNCHANGED store
                       /\ Called("write_sample", 1, "StoreError", 1, <<>>,
                                 PyNone)
    /\ UNCHANGED <<mainVars, coordVars, ix_client, mqttVars, bgVars, reported,
                   signals, connack, timezone>>

(* write_samples_batch(samples) with everything from the point list on left
   to a write of the first point only *)
GatewayWriteBatch_FirstOnly ==
    /\ lastCall.n < MaxCalls
    /\ \E b \in Batches :
          IF ix_client = "none"
          THEN /\ UNCHANGED store
               /\ NotConnected("write_samples_batch", Len(b))
          ELSE IF Len(b) = 0
          THEN /\ UNCHANGED store
               /\ Called("write_samples_batch", 0, "none", 0, <<>>, PyNone)
          ELSE /\ store' = store \o PointsOf(<<b[1]>>)
               /\ Called("write_samples_batch", Len(b), "none", 1, b, PyNone)
    /\ UNCHANGED <<mainVars, coordVars, ix_client, mqttVars, bgVars, reported,
                   signals, connack, timezone>>

(* write_samples_batch(samples): the connection check, then the empty-list
   check, then one write of all the points *)
GatewayWriteBatch ==
    /\ lastCall.n < MaxCalls
    /\ \E b \in Batches :
          IF ix_client = "none"
          THEN /\ UNCHANGED store
               /\ NotConnected("write_samples_batch", Len(b))
          ELSE IF Len(b) = 0
          THEN /\ UNCHANGED store
               /\ Called("write_samples_batch", 0, "none", 0, <<>>, PyNone)
          ELSE \E ok \in BOOLEAN :
                  IF ok
                  THEN /\ store' = store \o PointsOf(b)
                       /\ Called("write_samples_batch", Len(b), "none", 1, b,
                                 PyNone)
                  ELSE /\ UNCHANGED store
                       /\ Called("write_samples_batch", Len(b), "StoreError",
                                 1, <<>>, PyNone)
    /\ UNCHANGED <<mainVars, coordVars, ix_client, mqttVars, bgVars, reported,
                   signals, connack, timezone>>

(***************************************************************************)
(* The store answering the gateway's SQL queries, and the conversion of    *)
(* its answer. No two stored points have the same event time.              *)
(***************************************************************************)
Min(a, b) == IF a <= b THEN a ELSE b

PointSet(st) == {st[j] : j \in 1..Len(st)}

(* ORDER BY time DESC *)
RECURSIVE OrderByTimeDesc(_)
OrderByTimeDesc(S) ==
    IF S = {} THEN <<>>
    ELSE LET p == CHOOSE x \in S : \A y \in S : y.time.t <= x.time.t
         IN  <<p>> \o OrderByTimeDesc(S \ {p})

(* ORDER BY time ASC *)
RECURSIVE OrderByTimeAsc(_)
OrderByTimeAsc(S) ==
    IF S = {} THEN <<>>
    ELSE LET p == CHOOSE x \in S : \A y \in S : x.time.t <= y.time.t
         IN  <<p>> \o OrderByTimeAsc(S \ {p})

(* the oldest points first: ORDER BY time ASC LIMIT limit *)
SelectRecent_Ascending(st, limit) ==
    SubSeq(OrderByTimeAsc(PointSet(st)), 1, Min(limit, Len(st)))

(* the LIMIT clause left out *)
SelectRecent_NoLimit(st, limit) == OrderByTimeDesc(PointSet(st))

(* SELECT * FROM measurement ORDER BY time DESC LIMIT limit *)
SelectRecent(st, limit) ==
    SubSeq(OrderByTimeDesc(PointSet(st)), 1, Min(limit, Len(st)))

(* SELECT * FROM measurement WHERE time >= start AND time <= end
   ORDER BY time ASC *)
SelectRange(st, start, end) ==
    OrderByTimeAsc({x \in PointSet(st) : start <= x.time.t /\ x.time.t <= end})

(* the columns of the measurement: time and every field ever written *)
Columns(st) == UNION {DOMAIN st[j].fields : j \in 1..Len(st)}

PyNaN == [k |-> "nan", v |-> 0]

(* _pyarrow_to_list(table): table.to_pandas().to_dict('records'). Every row
   gets every column; a value the point lacks is NaN, and an integer column
   with such a gap comes back as floats. The time is an instant: the zone
   the Record was stamped in is not kept. *)
PyArrowToList(points, cols) ==
    [j \in 1..Len(points) |->
        [time |-> points[j].time.t,
         cols |->
            [c \in cols |->
                IF c \notin DOMAIN points[j].fields THEN PyNaN
                ELSE IF /\ points[j].fields[c].k = "int"
                        /\ \E i \in 1..Len(points) :
                              c \notin DOMAIN points[i].fields
                     THEN PyFloat(points[j].fields[c].v)
                     ELSE points[j].fields[c]]]]

PyList(rows) == [k |-> "list", v |-> rows]

PyDict(row) == [k |-> "dict", v |-> row]

(* results[0] if results else None *)
FirstOrNone(rows) == IF Len(rows) > 0 THEN PyDict(rows[1]) ELSE PyNone

(* query_recent_samples(limit) on a connected gateway: the rows, or the
   store's error raised again *)
QueryRecent(op, limit) ==
    \E ok \in BOOLEAN :
        IF ok
        THEN LET rows == PyArrowToList(SelectRecent(store, limit),
                                      Columns(store))
             IN  Called(op, limit, "none", 1, <<>>,
                        IF op = "query_latest_sample"
                        THEN FirstOrNone(rows) ELSE PyList(rows))
        ELSE Called(op, limit, "StoreError", 1, <<>>, PyNone)

(* query_recent_samples(limit) *)
GatewayQueryRecent ==
    /\ lastCall.n < MaxCalls
    /\ \E limit \in 0..MaxLimit :
          IF ix_client = "none"
          THEN NotConnected("query_recent_samples", limit)
          ELSE QueryRecent("query_recent_samples", limit)
    /\ UNCHANGED <<mainVars, coordVars, ix_client, mqttVars, bgVars, store,
                   reported, signals, connack, timezone>>

(* query_latest_sample(): query_recent_samples(limit=1), then the first row
   or None *)
GatewayQueryLatest ==
    /\ lastCall.n < MaxCalls
    /\ IF ix_client = "none"
       THEN NotConnected("query_latest_sample", 1)
       ELSE QueryRecent("query_latest_sample", 1)
    /\ UNCHANGED <<mainVars, coordVars, ix_client, mqttVars, bgVars, store,
                   reported, signals, connack, timezone>>

(* query_time_range(start, end); an end left out is the present time, which
   no stored event time exceeds *)
GatewayQueryRange ==
    /\ lastCall.n < MaxCalls
    /\ \E start \in 1..MaxTime, end \in 1..MaxTime :
          IF ix_client = "none"
          THEN NotConnected("query_time_range", 0)
          ELSE \E ok \in BOOLEAN :
                  IF ok
                  THEN Called("query_time_range", 0, "none", 1, <<>>,
                              PyList(PyArrowToList(
                                         SelectRange(store, start, end),
                                         Columns(store))))
                  ELSE Called("query_time_range", 0, "StoreError", 1, <<>>,
                              PyNone)
    /\ UNCHANGED <<mainVars, coordVars, ix_client, mqttVars, bgVars, store,
                   reported, signals, connack, timezone>>

(* SELECT COUNT( * ) as count FROM measurement: one row *)
SelectCount(st) == << [count |-> PyInt(Len(st))] >>

(* query_count() without its connection check: None has no query method *)
GatewayQueryCount_NoCheck ==
    /\ lastCall.n < MaxCalls
    /\ IF ix_client = "none"
       THEN Called("query_count", 0, "AttributeError", 0, <<>>, PyNone)
       ELSE \E ok \in BOOLEAN :
               IF ok
               THEN Called("query_count", 0, "none", 1, <<>>,
                           SelectCount(store)[1].count)
               ELSE Called("query_count", 0, "StoreError", 1, <<>>, PyNone)
    /\ UNCHANGED <<mainVars, coordVars, ix_client, mqttVars, bgVars, store,
                   reported, signals, connack, timezone>>

(* query_count(): int(data[0].get('count', 0)) of the one row, 0 without *)
GatewayQueryCount ==
    /\ lastCall.n < MaxCalls
    /\ IF ix_client = "none"
       THEN NotConnected("query_count", 0)
       ELSE \E ok \in BOOLEAN :
               IF ok
               THEN LET data == SelectCount(store)
                    IN  Called("query_count", 0, "none", 1, <<>>,
                               IF Len(data) > 0 THEN data[1].count
                               ELSE PyInt(0))
               ELSE Called("query_count", 0, "StoreError", 1, <<>>, PyNone)
    /\ UNCHANGED <<mainVars, coordVars, ix_client, mqttVars, bgVars, store,
                   reported, signals, connack, timezone>>

GatewayNext ==
    \/ GatewayConnect \/ GatewayClose
    \/ GatewayWriteSample \/ GatewayWriteBatch
    \/ GatewayQueryRecent \/ GatewayQueryLatest \/ GatewayQueryRange
    \/ GatewayQueryCount

GatewaySpec == GatewayUser /\ [][GatewayNext]_vars

(***************************************************************************)
(* Properties.                                                             *)
(***************************************************************************)
ExceptionClasses ==
    {"JSONDecodeError", "UnicodeDecodeError", "OverflowError",
     "ConnectionError", "KeyError", "TypeError", "ValueError",
     "ArithmeticError", "AttributeError", "RuntimeError", "OSError",
     "StoreError", "Exception"}

(* what decoding gives for each of Payloads arriving as the i-th message *)
DecodeOf ==
    [n \in 1..Len(Payloads), i \in 1..MaxMsgs |->
        Decode(Payloads[n], ConfigTimezone, i)]

DecodeAt(seq, i) == DecodeOf[seq[i], i]

(* every exception class is matched by one of _on_message's except clauses *)
EveryExceptionCaught == \A e \in ExceptionClasses : OnMessageCatch(e)

Valid(seq, i) == DecodeAt(seq, i).exc = "none"

(* C1: whatever the payload, and whatever exception the handler raises, the
   on-message callback returns normally: no exception leaves it, the loop
   thread never dies of one, and later messages are still processed. *)
C1_OnMessageNeverPropagates ==
    /\ thread # "crashed"
    /\ EveryExceptionCaught

(* a message that ran into the catch-all clause (int(inf) raises
   OverflowError) was followed by one that reached the handler *)
C1_Witness ==
    /\ Len(arrived) = 2
    /\ DecodeAt(arrived, 1).exc = "OverflowError"
    /\ Valid(arrived, 2)
    /\ Len(handed) = 1
    /\ thread = "running"

RECURSIVE ValidRecords(_, _)
ValidRecords(seq, i) ==
    IF i > Len(seq) THEN <<>>
    ELSE (IF Valid(seq, i) THEN <<DecodeAt(seq, i).val>> ELSE <<>>)
         \o ValidRecords(seq, i + 1)

(* C2: the Records passed to the handler are, one for one and in arrival
   order, the Records of exactly those delivered messages that decode and
   validate. *)
C2_HandedAreTheValidInOrder == handed = ValidRecords(arrived, 1)

(* an invalid message, then a valid one: the handler got one Record, the
   second message's *)
C2_Witness ==
    /\ Len(arrived) = 2
    /\ ~Valid(arrived, 1)
    /\ Valid(arrived, 2)
    /\ handed = <<DecodeAt(arrived, 2).val>>
    /\ handed[1].timestamp.t = 2

WritePcs == {"h_call", "h_inwrite"}

CloseReached ==
    \/ mainPc = "sd_close" /\ influx_client
    \/ \E i \in 1..Len(sdLog) : sdLog[i] = "close"
    \/ sdCalls > 0 /\ influx_client

(* C3: from the moment shutdown() is about to call close() on the gateway,
   no store write is about to start or in progress, and the loop thread that
   could start one is not running; also after stop() raised and in a second
   shutdown() call. *)
C3_NoWriteOnceCloseIsReached ==
    CloseReached => (bgPc \notin WritePcs /\ thread # "running")

(* stop() raised (the connected flag was not reset) after two samples had
   been handled, and shutdown() is about to close the gateway *)
C3_Witness ==
    /\ mainPc = "sd_close"
    /\ influx_client
    /\ is_connected
    /\ thread = "stopped"
    /\ samples_written + samples_failed = 2

(* C4: the main thread reads the counters during shutdown only once the loop
   thread has quiesced, so no read of them interleaves with a handler
   invocation. *)
C4_MainReadsOnlyWhenQuiesced == ~(reported.by = "main" /\ reported.racing)

(* C5: every handler invocation counts one received sample, and by its end
   exactly one of written (the write returned) and failed (the write
   raised); the exception of a write never leaves the handler. *)
C5_HandlerCounts ==
    /\ samples_received = Len(handed)
    /\ samples_written = Len(store) - (IF bgPc = "h_ok" THEN 1 ELSE 0)
    /\ samples_written + samples_failed
          = samples_received - (IF bgPc = "idle" THEN 0 ELSE 1)
    /\ bgPc \in {"idle", "h_call", "h_inwrite", "h_ok", "h_exc"}

(* one write succeeded, one raised, and both invocations have returned *)
C5_Witness ==
    /\ bgPc = "idle"
    /\ samples_received = 2
    /\ samples_written = 1
    /\ samples_failed = 1

(* the latest delivered message, as a step delivers it *)
Arrives == Len(arrived') = Len(arrived) + 1

(* an object whose temperature is a number outside [-50, 100] and which
   decodes once the temperature is put in range *)
TempOnlyOutOfRange(p) ==
    /\ p.enc = "utf8" /\ p.syntax = "json" /\ p.top = "object"
    /\ "temperature" \in DOMAIN p.m
    /\ p.m["temperature"].t = "num"
    /\ (p.m["temperature"].v < TempMin * 10 \/ p.m["temperature"].v > TempMax * 10)
    /\ Decode(Object(With(p.m, "temperature", JNum(0))), ConfigTimezone, 1).exc
          = "none"

ArrivesTempOutOfRange ==
    Arrives /\ TempOnlyOutOfRange(Payloads[arrived'[Len(arrived')]])

(* C6 as claimed: a message whose temperature is out of range, all else
   valid, increments the received count by one. *)
C6_ReceivedIncrements ==
    [][ArrivesTempOutOfRange => samples_received' = samples_received + 1]_vars

(* C6 as amended: such a message leaves the received count unchanged; the
   handler is not invoked for it. *)
C6_ReceivedUnchanged ==
    [][ArrivesTempOutOfRange =>
          (samples_received' = samples_received /\ handed' = handed)]_vars

(* a valid message was counted, then the one with temperature 200.0 arrived
   and the count is still one *)
C6_Witness ==
    /\ Len(arrived) = 2
    /\ Valid(arrived, 1)
    /\ TempOnlyOutOfRange(Payloads[arrived[2]])
    /\ samples_received = 1

(* C7: a message that fails decoding or validation changes neither written
   nor failed, starts no handler invocation and writes nothing; failed is
   incremented, by one, only in the handler's except clause, which is entered
   only from a write that raised. *)
C7_DecodeFailuresNotCounted ==
    [][/\ (Arrives /\ ~Valid(arrived', Len(arrived'))) =>
             /\ UNCHANGED <<samples_written, samples_failed, store, handed>>
             /\ bgPc' = "idle"
       /\ samples_failed' # samples_failed =>
             (bgPc = "h_exc" /\ samples_failed' = samples_failed + 1)
       /\ (bgPc' = "h_exc" /\ bgPc # "h_exc") =>
             (bgPc \in WritePcs /\ store' = store)]_vars

(* a malformed message was dropped, then a valid one's write raised: failed
   is one and the store is empty *)
C7_Witness ==
    /\ Len(arrived) = 2
    /\ DecodeAt(arrived, 1).exc = "JSONDecodeError"
    /\ Valid(arrived, 2)
    /\ bgPc = "idle"
    /\ samples_failed = 1
    /\ samples_written = 0
    /\ store = <<>>

IsPrefix(a, b) == Len(a) <= Len(b) /\ SubSeq(b, 1, Len(a)) = a

ShutdownSteps ==
    <<"stats">> \o (IF mqtt_client THEN <<"stop">> ELSE <<>>)
                \o (IF influx_client THEN <<"close">> ELSE <<>>)

(* C8: every shutdown() call reports the statistics first, then calls stop()
   if a Subscription Client was created, and calls close() on the gateway,
   if one was created, only once stop() has returned or raised. *)
C8_ShutdownOrder ==
    /\ IsPrefix(sdLog, ShutdownSteps)
    /\ mainPc = "sd_stop" => sdLog = <<"stats">>
    /\ mainPc \in {"stop_loop", "stop_disc"} => sdLog = <<"stats", "stop">>
    /\ mainPc = "sd_done" => sdLog = ShutdownSteps

(* the second call has done all three steps, stop() having raised *)
C8_Witness ==
    /\ mainPc = "sd_done"
    /\ sdCalls = 1
    /\ is_connected
    /\ sdLog = <<"stats", "stop", "close">>

LeavesShutdown == mainPc \in ShutdownPcs /\ mainPc' \notin ShutdownPcs

(* C9: shutdown() is left only by returning: an exception of stop() or of
   close() never leaves it, and by then close() has been called on the
   gateway, if there is one. *)
C9_ShutdownNeverRaises ==
    [][LeavesShutdown =>
          /\ mainPc = "sd_done"
          /\ exit_code' = exit_code
          /\ influx_client => \E i \in 1..Len(sdLog) : sdLog[i] = "close"]_vars

(* stop() raised (the connected flag is still set) and close() raised (the
   connection is still open), and shutdown() is about to return *)
C9_Witness ==
    /\ mainPc = "sd_done"
    /\ thread = "stopped"
    /\ is_connected
    /\ ix_client = "open"
    /\ sdLog = <<"stats", "stop", "close">>

(* C10: once a first shutdown() has returned, a further call returns without
   raising and leaves the terminal state as it was: the flag stays true, the
   counters, the store and the two clients stay as they are, delivery stays
   stopped, a cleared connected flag stays cleared and a store connection
   that is closed (or was never made) stays so. *)
C10_ShutdownIdempotent ==
    [][sdCalls >= 1 =>
          /\ shutdown_requested /\ shutdown_requested'
          /\ UNCHANGED <<counters, store, influx_client, mqtt_client, handed>>
          /\ thread' = thread /\ thread # "running"
          /\ ~is_connected => ~is_connected'
          /\ ix_client # "open" => ix_client' = ix_client
          /\ LeavesShutdown => (mainPc = "sd_done" /\ exit_code' = exit_code)]_vars

(* the second call has returned after two samples were handled: delivery is
   stopped and the store connection closed *)
C10_Witness ==
    /\ sdCalls = 2
    /\ mainPc = "exited"
    /\ samples_received = 2
    /\ thread = "stopped"
    /\ ~is_connected
    /\ ix_client = "closed"

(* C11: setup() connects the storage gateway before the MQTT client is
   constructed, connected or started: whenever the MQTT client exists, its
   transport is connected or its loop thread has been started, the storage
   connection has been established. When the storage connect() has failed,
   the MQTT client is never constructed, connected or started, and no
   message is decoded, handed to the handler or written. *)
StorageConnectFailed ==
    influx_client /\ ix_client = "none" /\ mainPc # "setup_influx"

C11_StorageFirst ==
    /\ (mqtt_client \/ link # "down" \/ thread # "none")
          => ix_client # "none"
    /\ StorageConnectFailed
          => /\ ~mqtt_client
             /\ link = "down" /\ thread = "none" /\ ~is_connected
             /\ arrived = <<>> /\ handed = <<>> /\ store = <<>>
             /\ samples_received = 0

(* the storage connect() failed and the process has ended *)
C11_Witness ==
    /\ StorageConnectFailed
    /\ mainPc = "exited"
    /\ ~mqtt_client
    /\ sdCalls = 1

(* C12: when connect() of the storage gateway or of the MQTT client fails
   with ConnectionError during setup(), the error leaves setup(): run() is
   never entered, the exit status is non-zero, and the process does not end
   before shutdown() has been executed. *)
MqttConnectFailed ==
    mqtt_client /\ thread = "none" /\ mainPc \notin {"setup_connect", "setup_start"}

SetupFailed == StorageConnectFailed \/ MqttConnectFailed

C12_SetupFailureIsFatal ==
    SetupFailed
      => /\ mainPc \notin {"setup_count", "setup_warn", "setup_mqtt",
                          "setup_start", "run_loop"}
         /\ sdCaller # "run"
         /\ exit_code = 1
         /\ mainPc \in {"main_finally", "exited"} \cup ShutdownPcs
         /\ mainPc = "exited" => sdCalls = 1 /\ sdLog[1] = "stats"

(* the MQTT connect() failed after the storage connect() succeeded: the
   process ended with status 1 after shutdown() closed the storage *)
C12_Witness ==
    /\ MqttConnectFailed
    /\ mainPc = "exited"
    /\ exit_code = 1
    /\ sdCalls = 1
    /\ sdLog = <<"stats", "stop", "close">>
    /\ ix_client = "closed"

(* C14: a termination signal delivered while the coordinator exists changes
   only the shutdown flag: the loop thread, the connections, the storage,
   the counters and the handler's position are as before. A write that is in
   progress ends only by its own success or failure, and the loop thread is
   stopped only between callbacks. *)
SignalDelivered == signals' = signals + 1

C14_SignalSetsOnlyTheFlag ==
    [][ /\ SignalDelivered
           => /\ shutdown_requested'
              /\ UNCHANGED <<mainVars, counters, influx_client, mqtt_client,
                             ix_client, mqttVars, bgVars, store, reported,
                             lastCall>>
        /\ (bgPc = "h_inwrite" /\ bgPc' # "h_inwrite")
           => /\ bgPc' \in {"h_ok", "h_exc"}
              /\ thread' = "running"
              /\ Len(store') = Len(store) + (IF bgPc' = "h_ok" THEN 1 ELSE 0)
        /\ (thread = "running" /\ thread' = "stopped")
           => bgPc = "idle" /\ cur = PyNone ]_vars

(* after the signal, stop() is waiting for a write that is still in progress *)
C14_Witness ==
    /\ signals = 1
    /\ shutdown_requested
    /\ mainPc = "stop_loop"
    /\ thread = "running"
    /\ bgPc = "h_inwrite"

(* C13: whenever the shutdown flag is true while run() is polling, run()
   eventually leaves its loop, executes shutdown() and returns: the first
   shutdown() call of the process, the one in run()'s finally block, comes
   back. *)
C13_RunReturnsAfterFlag ==
    (mainPc = "run_loop" /\ shutdown_requested /\ sdCalls = 0)
        ~> (sdCalls >= 1)

(* C15: stop() on the MQTT client always returns: once shutdown() has called
   it, the call eventually comes back, whatever the loop thread is doing. *)
C15_StopAlwaysReturns ==
    (mainPc = "stop_loop") ~> (mainPc \notin {"stop_loop", "stop_disc"})

(***************************************************************************)
(* The decoder's contract, over the messages that have arrived. The        *)
(* Record's timestamp is the arrival index of its message.                 *)
(***************************************************************************)
InputAt(i) == Inputs[arrived[i]]

HandedFor(i) == \E j \in 1..Len(handed) : handed[j].timestamp.t = i

RecordFor(i) ==
    handed[CHOOSE j \in 1..Len(handed) : handed[j].timestamp.t = i]

StoredFor(i) == \E j \in 1..Len(store) : store[j].time.t = i

IsObject(p) == p.enc = "utf8" /\ p.syntax = "json" /\ p.top = "object"

RequiredFields ==
    <<"temperature_c", "humidity_pct", "air_quality_co2_ppm",
      "flammable_gas_ppm", "toxic_gas_ppm", "uv_index", "battery_voltage">>

OptionalFields ==
    <<"gps_latitude", "gps_longitude", "gps_altitude_m", "gps_satellites",
      "gps_fix_quality">>

(* the coercion the decoder applies to the n-th optional key *)
Coerced(n, x) == IF n <= 3 THEN ToFloat(x) ELSE ToInt(x)

(* a finite number between lo and hi, both included *)
Within(lo, x, hi) == x.k = "float" /\ lo * 10 <= x.v /\ x.v <= hi * 10

HasAllRequired(p) ==
    \A n \in 1..Len(RequiredKeys) : RequiredKeys[n] \in DOMAIN p.m

GivenGps(p, n) ==
    OptionalKeys[n] \in DOMAIN p.m /\ p.m[OptionalKeys[n]].t # "null"

(* all seven required keys hold values that float() accepts, temperature and
   humidity are in range, and every GPS key that is given holds a value its
   coercion accepts *)
WellFormed(p) ==
    /\ IsObject(p)
    /\ HasAllRequired(p)
    /\ \A n \in 1..Len(RequiredKeys) : ToFloat(p.m[RequiredKeys[n]]).exc = "none"
    /\ Within(-50, ToFloat(p.m["temperature"]).val, 100)
    /\ Within(0, ToFloat(p.m["humidity"]).val, 100)
    /\ \A n \in 1..Len(OptionalKeys) :
          GivenGps(p, n) => Coerced(n, p.m[OptionalKeys[n]]).exc = "none"

(* C16: for every payload with all seven required keys present, temperature
   in [-50, 100] and humidity in [0, 100] (all values coercible), decoding
   succeeds: the handler receives a Record whose required fields equal the
   payload's coerced values, and each of the five GPS fields is present if and
   only if its own key is present with a non-null value, whatever the other
   GPS keys are; a present GPS field equals the coerced value. *)
C16_WellFormedPayloadDecodes ==
    \A i \in 1..Len(arrived) :
        LET p == InputAt(i)
        IN  WellFormed(p)
              => /\ HandedFor(i)
                 /\ \A n \in 1..Len(RequiredKeys) :
                       RecordFor(i)[RequiredFields[n]]
                         = ToFloat(p.m[RequiredKeys[n]]).val
                 /\ \A n \in 1..Len(OptionalKeys) :
                       /\ (RecordFor(i)[OptionalFields[n]] # PyNone)
                             <=> GivenGps(p, n)
                       /\ GivenGps(p, n)
                             => RecordFor(i)[OptionalFields[n]]
                                  = Coerced(n, p.m[OptionalKeys[n]]).val

(* a Record was decoded from a payload without the latitude key, with a null
   longitude and with altitude and satellites given *)
C16_Witness ==
    \E i \in 1..Len(arrived) :
        /\ WellFormed(InputAt(i))
        /\ HandedFor(i)
        /\ "latitude" \notin DOMAIN InputAt(i).m
        /\ "longitude" \in DOMAIN InputAt(i).m
        /\ InputAt(i).m["longitude"] = JNull
        /\ GivenGps(InputAt(i), 3)
        /\ GivenGps(InputAt(i), 4)
        /\ RecordFor(i).gps_latitude = PyNone
        /\ RecordFor(i).gps_longitude = PyNone
        /\ RecordFor(i).gps_altitude_m = PyFloat(7500)
        /\ RecordFor(i).gps_satellites = PyInt(100)

(* a required key is missing, or temperature or humidity is a number outside
   its range *)
Outside(lo, x, hi) ==
    ToFloat(x).exc = "none" /\ ~Within(lo, ToFloat(x).val, hi)

LacksRequiredOrOutOfRange(p) ==
    \/ IsObject(p) /\ ~HasAllRequired(p)
    \/ /\ IsObject(p) /\ "temperature" \in DOMAIN p.m
       /\ Outside(-50, p.m["temperature"], 100)
    \/ /\ IsObject(p) /\ "humidity" \in DOMAIN p.m
       /\ Outside(0, p.m["humidity"], 100)

(* temperature and humidity both exactly on a bound, everything else valid *)
OnTheBounds(p) ==
    /\ WellFormed(p)
    /\ p.m["temperature"] \in {JNum(-500), JNum(1000)}
    /\ p.m["humidity"] \in {JNum(0), JNum(1000)}

(* C17: for any payload that lacks a required key, or whose temperature is
   outside [-50, 100], or whose humidity is outside [0, 100], decoding fails:
   no Record is constructed, the handler is not invoked for that message and
   nothing is written for it. The bounds are inclusive: a payload exactly on
   them is handed to the handler. *)
C17_InvalidPayloadRejected ==
    \A i \in 1..Len(arrived) :
        /\ LacksRequiredOrOutOfRange(InputAt(i))
              => ~HandedFor(i) /\ ~StoredFor(i)
        /\ OnTheBounds(InputAt(i)) => HandedFor(i)

(* a payload with temperature 100.0 and humidity 100.1 has been dropped *)
C17_Witness ==
    \E i \in 1..Len(arrived) :
        /\ IsObject(InputAt(i)) /\ HasAllRequired(InputAt(i))
        /\ InputAt(i).m["temperature"] = JNum(1000)
        /\ InputAt(i).m["humidity"] = JNum(1001)
        /\ ~HandedFor(i)
        /\ bgPc = "idle" /\ thread = "running"
        /\ samples_received = 0

WrongType(x) ==
    x.t \in {"str_int", "str_dec", "str_text", "bool", "null", "arr", "obj"}

(* C18: for any payload in which a required key is present but holds a JSON
   string, boolean, null, array or object instead of a number, decoding fails
   and no Record is constructed. *)
C18_WrongTypeRejected ==
    \A i \in 1..Len(arrived) :
        (/\ IsObject(InputAt(i))
         /\ \E n \in 1..Len(RequiredKeys) :
               /\ RequiredKeys[n] \in DOMAIN InputAt(i).m
               /\ WrongType(InputAt(i).m[RequiredKeys[n]]))
          => ~HandedFor(i)

(* C19: every point in the store, every Record handed to the handler and the
   Record the handler is working on has temperature_c in [-50, 100] and
   humidity_pct in [0, 100]. *)
C19_StoredPointsInRange ==
    /\ \A j \in 1..Len(store) :
          /\ Within(-50, store[j].fields["temperature_c"], 100)
          /\ Within(0, store[j].fields["humidity_pct"], 100)
    /\ \A j \in 1..Len(handed) :
          /\ Within(-50, handed[j].temperature_c, 100)
          /\ Within(0, handed[j].humidity_pct, 100)
    /\ cur # PyNone
          => /\ Within(-50, cur.temperature_c, 100)
             /\ Within(0, cur.humidity_pct, 100)

(* a point with temperature 100.0 and humidity 0.0 is in the store *)
C19_Witness ==
    \E j \in 1..Len(store) :
        /\ store[j].fields["temperature_c"] = PyFloat(1000)
        /\ store[j].fields["humidity_pct"] = PyFloat(0)

(* C20: write_samples_batch called with an empty list is a no-op in every
   gateway state: the call does not raise and submits nothing to the store. *)
C20_EmptyBatchIsNoOp ==
    (lastCall.op = "write_samples_batch" /\ lastCall.size = 0)
      => lastCall.exc = "none" /\ lastCall.submitted = 0

(***************************************************************************)
(* The gateway's contract, over the calls of its direct user.              *)
(***************************************************************************)
QueryOps ==
    {"query_recent_samples", "query_time_range", "query_latest_sample",
     "query_count"}

WriteOps == {"write_sample", "write_samples_batch"}

(* the step is a call of one of ops *)
Calls(ops) == lastCall'.n = lastCall.n + 1 /\ lastCall'.op \in ops

(* C21: every query operation and every write of at least one record that
   is called while no connection has been established (connect() was never
   called, or failed) raises RuntimeError, sends nothing to the store and
   leaves the gateway and the store as they were. *)
C21_UnconnectedCallsRaise ==
    [][ (/\ ix_client = "none"
         /\ \/ Calls(QueryOps)
            \/ Calls(WriteOps) /\ lastCall'.size >= 1)
          => /\ lastCall'.exc = "RuntimeError"
             /\ lastCall'.requests = 0
             /\ lastCall'.submitted = 0
             /\ lastCall'.ret = PyNone
             /\ UNCHANGED <<ix_client, store>> ]_vars

(* after a connect() that failed, query_count() has raised RuntimeError *)
C21_Witness ==
    /\ lastCall.n = 2
    /\ lastCall.op = "query_count"
    /\ lastCall.was = "none"
    /\ lastCall.exc = "RuntimeError"
    /\ ix_client = "none"

(* C23: with the gateway's user as the only writer, query_count() returns
   the number of Records handed to the write calls that succeeded so far:
   the count before a run of k successful write_sample() calls, or of one
   write_samples_batch() of k Records, plus k, for every k >= 0.  The store
   is empty when the user starts, and lastCall.acked is the user's own tally
   of the Records whose write call returned normally. *)
C23_CountIsWhatWasWritten ==
    (lastCall.op = "query_count" /\ lastCall.exc = "none")
        => lastCall.ret = PyInt(lastCall.acked)

(* connect, a batch of two, one single write, and the count is 3 *)
C23_Witness ==
    /\ lastCall.n = 4
    /\ lastCall.op = "query_count"
    /\ lastCall.exc = "none"
    /\ lastCall.acked = 3
    /\ lastCall.ret = PyInt(3)

(* the seven value columns of a row *)
ValueColumns ==
    {"temperature_c", "humidity_pct", "air_quality_co2_ppm",
     "flammable_gas_ppm", "toxic_gas_ppm", "uv_index", "battery_voltage"}

(* the row's value columns are the Record's fields *)
RowEquals(row, s) ==
    \A c \in ValueColumns : c \in DOMAIN row.cols /\ row.cols[c] = s[c]

(* query_recent_samples(limit=1) has returned, and the last write that
   reached the store was of one Record *)
ReadBackOfOne ==
    /\ lastCall.op = "query_recent_samples"
    /\ lastCall.size = 1
    /\ lastCall.exc = "none"
    /\ Len(lastCall.wrote) = 1

(* the Record of the last write *)
LastWritten == UserRecord(lastCall.wrote[1])

(* exactly one row, and it is the Record of the last write *)
ReadsBackLastWritten ==
    /\ lastCall.ret.k = "list"
    /\ Len(lastCall.ret.v) = 1
    /\ RowEquals(lastCall.ret.v[1], LastWritten)

(* C24 as stated: after a Record is written with no later write,
   query_recent_samples(limit=1) returns exactly one row whose seven value
   columns equal the Record's fields. *)
C24_RoundTrip_AsStated == ReadBackOfOne => ReadsBackLastWritten

(* C24: after a Record whose timestamp is not earlier than the event time
   of any point in the store is written, with no later write,
   query_recent_samples(limit=1) returns exactly one row whose seven value
   columns equal the Record's fields. *)
C24_RoundTripOfNewest ==
    (/\ ReadBackOfOne
     /\ \A u \in Times(store) : u <= lastCall.wrote[1])
        => ReadsBackLastWritten

(* the Records stamped 1 and then 3 are written, and the row read back is
   the one stamped 3 *)
C24_Witness ==
    /\ ReadBackOfOne
    /\ Len(store) = 2
    /\ store[1].time.t = 1
    /\ lastCall.wrote[1] = 3
    /\ lastCall.ret.v[1].time = 3
    /\ RowEquals(lastCall.ret.v[1], UserRecord(3))

(* the rows are n points of the store with the greatest event times,
   newest first *)
NewestFirst(rows, n) ==
    /\ Len(rows) = n
    /\ \A i \in 1..Len(rows) : rows[i].time \in Times(store)
    /\ \A i, j \in 1..Len(rows) : i < j => rows[i].time > rows[j].time
    /\ \A u \in Times(store) \ {rows[i].time : i \in 1..Len(rows)} :
          \A i \in 1..Len(rows) : u < rows[i].time

(* C26: query_recent_samples(limit) returns min(limit, number of stored
   points) rows, which are the points with the greatest event times, newest
   first; query_latest_sample() returns the newest point, the first row of
   query_recent_samples(1), or None when the store holds no points. *)
C26_RecentAndLatest ==
    /\ (lastCall.op = "query_recent_samples" /\ lastCall.exc = "none")
          => /\ lastCall.ret.k = "list"
             /\ NewestFirst(lastCall.ret.v,
                            IF lastCall.size <= Len(store)
                            THEN lastCall.size ELSE Len(store))
    /\ (lastCall.op = "query_latest_sample" /\ lastCall.exc = "none")
          => IF store = <<>>
             THEN lastCall.ret = PyNone
             ELSE /\ lastCall.ret.k = "dict"
                  /\ NewestFirst(<<lastCall.ret.v>>, 1)

(* three points written with the oldest last; query_recent_samples(2)
   returns the two newest, newest first *)
C26_Witness ==
    /\ lastCall.op = "query_recent_samples"
    /\ lastCall.exc = "none"
    /\ lastCall.size = 2
    /\ Len(store) = 3
    /\ store[3].time.t = 1
    /\ Len(lastCall.ret.v) = 2
    /\ lastCall.ret.v[1].time = 3
    /\ lastCall.ret.v[2].time = 2

(* the five optional columns of a point *)
GpsColumns ==
    {"gps_latitude", "gps_longitude", "gps_altitude_m", "gps_satellites",
     "gps_fix_quality"}

(* p is the point of the Record r *)
IsPointOf(p, r) ==
    /\ p.tags = {}
    /\ p.time = r.timestamp
    /\ ValueColumns \subseteq DOMAIN p.fields
    /\ DOMAIN p.fields \subseteq ValueColumns \cup GpsColumns
    /\ \A c \in ValueColumns : p.fields[c] = r[c]
    /\ \A g \in GpsColumns :
          /\ g \in DOMAIN p.fields <=> r[g] # PyNone
          /\ g \in DOMAIN p.fields => p.fields[g] = r[g]

(* C25: a Record that is written becomes exactly one point, with no tag
   columns, whose event time is the Record's timestamp, which carries the
   seven required value columns and carries each of gps_latitude,
   gps_longitude, gps_altitude_m, gps_satellites and gps_fix_quality if and
   only if the Record has that field (a value of 0 is written too). *)
C25_PointOfRecord ==
    /\ \A j \in 1..Len(store) :
          /\ HandedFor(store[j].time.t)
          /\ IsPointOf(store[j], RecordFor(store[j].time.t))
    /\ \A i, j \in 1..Len(store) :
          i # j => store[i].time.t # store[j].time.t

(* a point whose gps_latitude is 0.0 is in the store *)
C25_Witness ==
    \E j \in 1..Len(store) :
        /\ "gps_latitude" \in DOMAIN store[j].fields
        /\ store[j].fields["gps_latitude"] = PyFloat(0)
        /\ RecordFor(store[j].time.t).gps_latitude = PyFloat(0)

(***************************************************************************)
(* The coordinator and the clients, continued.                             *)
(***************************************************************************)
(* the Record the handler is working on *)
InHand(r) == cur # PyNone /\ cur.timestamp.t = r.timestamp.t

(* the Records whose handling ended without a point in the store *)
FailedRecords ==
    {j \in 1..Len(handed) :
        ~StoredFor(handed[j].timestamp.t) /\ ~InHand(handed[j])}

(* write_sample's one submission ends with the store's error *)
WriteRejected == bgPc = "h_inwrite" /\ bgPc' # "h_inwrite" /\ store' = store

(* C22: a failed write is never retried. write_sample makes one submission
   and raises the store's error to the handler; the handler does not call it
   again for that Record but counts the Record as failed, once, and ends;
   every Record whose handling has ended without its point in the store is
   counted in samples_failed exactly once, so none of them is stored later;
   and no Record has more than one point in the store. *)
C22_FailedWriteNotRetried ==
    [][ /\ WriteRejected => bgPc' = "h_exc" /\ cur' = cur
        /\ (bgPc = "h_exc" /\ bgPc' # "h_exc")
              => /\ bgPc' = "idle"
                 /\ samples_failed' = samples_failed + 1
                 /\ store' = store
        /\ samples_failed' = Cardinality(FailedRecords')
        /\ \A i, j \in 1..Len(store') :
              i # j => store'[i].time.t # store'[j].time.t ]_vars

(* the store rejected the first Record and accepted the second: one failure
   is counted and only the second Record's point is in the store *)
C22_Witness ==
    /\ Len(handed) = 2
    /\ bgPc = "idle"
    /\ ix_client = "open"
    /\ samples_failed = 1
    /\ samples_written = 1
    /\ Len(store) = 1
    /\ store[1].time.t = handed[2].timestamp.t

(* a call of stop() has ended, by returning or by raising *)
StopEnded ==
    /\ \E k \in 1..Len(sdLog) : sdLog[k] = "stop"
    /\ mainPc \notin {"stop_loop", "stop_disc"}

(* C27: once stop() has been called on the MQTT client, the client is
   stopped for good: its connected flag is false and stays false, and the
   loop thread, which alone invokes the handler, is no longer running. *)
C27_StoppedIsTerminal ==
    StopEnded => ~is_connected /\ thread # "running" /\ bgPc = "idle"

(* a step of main(), setup(), run() or shutdown(), or the delivery of a
   signal *)
MainThreadActs ==
    \/ mainPc' # mainPc
    \/ signals' # signals
    \/ shutdown_requested' # shutdown_requested
    \/ sdLog' # sdLog

(* a step of the handler on the loop thread: it is entered with a message,
   or it leaves the branch it is in *)
HandlerActs ==
    /\ thread = "running"
    /\ arrived' # arrived \/ (bgPc \in {"h_ok", "h_exc"} /\ bgPc' = "idle")

(* C30: samples_received, samples_written and samples_failed are changed
   only by the message handler running on the loop thread: the steps of
   setup(), run(), shutdown() and the signal handler leave them unchanged,
   and a statistics report shows the counters without changing them. *)
C30_OnlyTheHandlerCounts ==
    [][ /\ MainThreadActs => UNCHANGED counters
        /\ counters' # counters => HandlerActs
        /\ reported' # reported =>
              <<reported'.received, reported'.written, reported'.failed>>
                  = counters' ]_vars

(* the process has ended after two messages, a signal and the final report,
   and the counters are what the handler left *)
C30_Witness ==
    /\ mainPc = "exited"
    /\ signals = 1
    /\ reported.by = "main"
    /\ samples_received = 2
    /\ samples_written = 1
    /\ samples_failed = 1
    /\ reported.received = 2

(* the loop thread runs _on_connect: the broker answered the handshake *)
OnConnectEvent ==
    /\ link = "connecting"
    /\ mainPc' = mainPc
    /\ link' # link \/ drops' # drops \/ connack' # connack

(* C28: every _on_connect with rc = 0 sets the connected flag and issues
   exactly one subscribe, for the configured topic at the configured QoS;
   whatever that subscribe reports, the flag stays true and the connection
   and the loop thread are left as they are; an _on_connect with another rc
   issues no subscribe and leaves the flag false. *)
C28_OnConnectSubscribesOnce ==
    [][ OnConnectEvent =>
          IF connack'.rc = "ok"
          THEN /\ is_connected'
               /\ Len(connack'.subscribes) = 1
               /\ connack'.subscribes[1].topic = MqttTopic
               /\ connack'.subscribes[1].qos = MqttQos
               /\ link' = "up"
               /\ thread' = thread
          ELSE /\ connack'.rc = "refused"
               /\ connack'.subscribes = <<>>
               /\ ~is_connected'
               /\ ~subscribed' ]_vars

(* the handshake succeeded and the subscribe failed: the client is connected
   and receives nothing *)
C28_Witness ==
    /\ connack.rc = "ok"
    /\ Len(connack.subscribes) = 1
    /\ ~connack.subscribes[1].ok
    /\ is_connected
    /\ link = "up"
    /\ ~subscribed

(* the handler has returned from the message that brought the received
   count to a multiple of ten *)
TenthHandled ==
    /\ bgPc = "idle"
    /\ samples_received > 0
    /\ samples_received % StatsEvery = 0

(* C29: every tenth received message triggers a statistics report: when the
   handler has brought the received count to a multiple of ten, it has
   emitted a report showing that count before it returns, whether or not
   the write of that message succeeded. *)
C29_EveryTenthReports ==
    TenthHandled
        => reported.by = "handler" /\ reported.received = samples_received

(* the loop thread runs _on_disconnect: the connection was lost or closed *)
OnDisconnectEvent ==
    /\ link = "up"
    /\ mainPc' = mainPc
    /\ link' = "connecting"

(* a call of stop() ends, by returning or by raising *)
StopEnds == mainPc = "stop_disc" /\ mainPc' # "stop_disc"

(* the flag's changes other than at the end of stop(): false once the client
   is constructed and while connect() runs, true only by an _on_connect with
   rc = 0, false by an _on_connect with another rc and by _on_disconnect *)
FlagFollowsEvents ==
    /\ mainPc \in {"setup_mqtt", "setup_connect"} /\ mainPc' # mainPc
          => ~is_connected'
    /\ ~is_connected /\ is_connected'
          => OnConnectEvent /\ connack'.rc = "ok"
    /\ OnConnectEvent => (is_connected' <=> connack'.rc = "ok")
    /\ OnDisconnectEvent => ~is_connected'

(* C31: the connected flag is true exactly when the latest lifecycle event
   was a successful _on_connect: it is false after construction and after
   connect() returns, becomes true only by an _on_connect with rc = 0, and
   becomes false by every _on_disconnect, by an _on_connect with another rc
   and by stop(). *)
C31_FlagFollowsLifecycle ==
    [][ FlagFollowsEvents /\ (StopEnds => ~is_connected') ]_vars

(***************************************************************************)
(* The decoder under a configured timezone that is no zone's name.         *)
(***************************************************************************)
(* C32: when the configured timezone identifier is invalid, a payload that
   is otherwise valid is still decoded and handed to the handler, and its
   Record is stamped with the time of arrival in UTC: the invalid timezone
   never causes a message to be dropped. *)
C32_InvalidTimezoneFallsBackToUtc ==
    timezone \notin KnownTimezones
        => \A i \in 1..Len(arrived) :
              WellFormed(InputAt(i))
                  => /\ HandedFor(i)
                     /\ RecordFor(i).timestamp = [t |-> i, tz |-> "UTC"]

(* with TZ naming no zone, a valid payload has arrived and its Record,
   stamped in UTC, is in the store *)
C32_Witness ==
    /\ timezone = "Mars/Olympus_Mons"
    /\ Len(arrived) >= 1
    /\ WellFormed(InputAt(1))
    /\ HandedFor(1)
    /\ StoredFor(1)
    /\ store[1].time = [t |-> 1, tz |-> "UTC"]

(***************************************************************************)
(* setup(), the counters and the shutdown sequence.                        *)
(***************************************************************************)
(* C33: when the initial count query of setup() fails after the storage
   connect() succeeded, setup() does not fail: the failure is logged, the
   exit status is untouched, and setup() goes on to construct the MQTT
   client, whose connect() and start() follow. *)
C33_CountQueryIsBestEffort ==
    [][ /\ (mainPc = "setup_count" /\ ix_client = "open" /\ mainPc' # mainPc)
              => mainPc' \in {"setup_mqtt", "setup_warn"} /\ UNCHANGED exit_code
        /\ (mainPc = "setup_warn" /\ mainPc' # mainPc)
              => mainPc' = "setup_mqtt" /\ UNCHANGED exit_code
        /\ (mainPc = "setup_mqtt" /\ mainPc' # mainPc)
              => mainPc' = "setup_connect" /\ mqtt_client'
        /\ (mainPc = "setup_connect" /\ mainPc' = "setup_start")
              => link' = "connecting" ]_vars

(* the count query has failed on an open storage connection and setup() is
   in the except clause that logs it *)
C33_Witness ==
    /\ mainPc = "setup_warn"
    /\ ix_client = "open"
    /\ influx_client
    /\ ~mqtt_client
    /\ exit_code = 0

(* C34: the counters never decrease, samples_written + samples_failed never
   exceeds samples_received, and whenever no handler invocation is in
   progress samples_received = samples_written + samples_failed; also when
   emitting the per-sample summary or the periodic report fails after a
   successful write. *)
C34_CountersAddUp ==
    [][ /\ samples_received' >= samples_received
        /\ samples_written' >= samples_written
        /\ samples_failed' >= samples_failed
        /\ samples_written' + samples_failed' <= samples_received'
        /\ bgPc' = "idle"
              => samples_received' = samples_written' + samples_failed' ]_vars

(* a shutdown() call that follows one that has returned is past its first
   statement, or has returned too: sdLog is what it has done *)
SecondShutdown ==
    \/ sdCalls = 1 /\ mainPc \in ShutdownPcs \ {"sd_flag"}
    \/ sdCalls >= 2

(* C35: in one run of main() the shutdown sequence is executed at most once:
   after a shutdown() that has returned, no further call reports the
   statistics, calls stop() on the MQTT client or calls close() on the
   storage gateway; this on every path out of main(). *)
C35_ShutdownRunsOnce == SecondShutdown => sdLog = <<>>

(***************************************************************************)
(* The gateway after close().                                              *)
(***************************************************************************)
(* C36: after close() on the storage gateway, is_connected() returns false,
   and a further write or query raises RuntimeError and is not submitted to
   the closed store connection. *)
C36_ClosedGatewayRefuses ==
    /\ ix_client = "closed" => ~GatewayIsConnected
    /\ (lastCall.was = "closed" /\ lastCall.op \in QueryOps \cup WriteOps)
          => lastCall.exc = "RuntimeError" /\ lastCall.requests = 0

(***************************************************************************)
(* The coordinator and the MQTT client, continued.                         *)
(***************************************************************************)
(* C37: the handler's branch for a missing storage gateway is unreachable:
   whenever the loop thread can invoke the handler, the coordinator holds a
   gateway whose connect() has succeeded, so samples_failed is incremented
   only in the except clause, after a write that was submitted and raised. *)
C37_FailedOnlyByRaisedWrite ==
    [][ /\ thread' = "running" => influx_client' /\ ix_client' # "none"
        /\ samples_failed' # samples_failed => bgPc = "h_exc"
        /\ (bgPc # "h_exc" /\ bgPc' = "h_exc") => bgPc = "h_inwrite" ]_vars

(* a write was submitted and raised, and the failure is counted *)
C37_Witness ==
    /\ thread = "running"
    /\ influx_client
    /\ ix_client = "open"
    /\ bgPc = "idle"
    /\ samples_received = 1
    /\ samples_failed = 1

(* C38: whatever disconnects and reconnects the transport goes through,
   every successful (re)connect issues the topic subscription again: the
   client is never connected without a subscribe issued by its latest
   successful _on_connect. *)
C38_ConnectedImpliesSubscribeIssued ==
    is_connected
        => /\ connack.rc = "ok"
           /\ Len(connack.subscribes) = 1
           /\ connack.subscribes[1].topic = MqttTopic

(* after a refused handshake or a lost connection the client has connected
   again and the subscription is in place *)
C38_Witness ==
    /\ drops = 1
    /\ thread = "running"
    /\ is_connected
    /\ link = "up"
    /\ subscribed
    /\ Len(connack.subscribes) = 1

(* main() is inside setup() or run() *)
InSetupOrRun ==
    mainPc \in {"setup_influx", "setup_count", "setup_warn", "setup_mqtt",
                "setup_connect", "setup_start", "run_loop"}

(* C39: a termination signal is never lost: once one has been delivered the
   shutdown flag is true and is never reset, and when it arrives during
   setup() or run(), run() leaves or never enters its polling loop and
   shutdown() is eventually executed to its end, the MQTT client stopped and
   the storage closed. *)
C39_SignalNeverLost ==
    /\ [](signals >= 1 => shutdown_requested)
    /\ (signals >= 1 /\ InSetupOrRun) ~> (sdCalls >= 1)

(***************************************************************************)
(* The decoder's contract, continued.                                      *)
(***************************************************************************)
(* a JSON value that is no number and no numeric text: other text, an array
   or an object for every GPS key; for the two integer keys also decimal
   text and Infinity, which int() rejects *)
Uncoercible(n, x) ==
    \/ x.t \in {"str_text", "arr", "obj"}
    \/ n > 3 /\ x.t \in {"str_dec", "inf"}

(* the seven required keys hold numbers in range, and a GPS key holds a
   value that cannot be coerced *)
ValidButForGps(p) ==
    /\ IsObject(p)
    /\ HasAllRequired(p)
    /\ \A n \in 1..Len(RequiredKeys) : p.m[RequiredKeys[n]].t = "num"
    /\ Within(-50, PyFloat(p.m["temperature"].v), 100)
    /\ Within(0, PyFloat(p.m["humidity"].v), 100)
    /\ \E n \in 1..Len(OptionalKeys) :
          GivenGps(p, n) /\ Uncoercible(n, p.m[OptionalKeys[n]])

(* C40: a payload whose required fields are all valid but in which a GPS key
   is present with a non-null value that cannot be coerced to a number is
   rejected as a whole: no Record is constructed, the handler is not invoked
   and nothing is counted or stored for it; the GPS field is not treated as
   absent. *)
C40_BadGpsRejectsThePayload ==
    \A i \in 1..Len(arrived) :
        ValidButForGps(InputAt(i))
            => /\ ~HandedFor(i)
               /\ ~StoredFor(i)
               /\ samples_received = Len(handed)

(* a payload with valid required fields and "satellites" holding text that
   is no number has arrived and was dropped; the loop thread goes on *)
C40_Witness ==
    /\ Len(arrived) = 1
    /\ ValidButForGps(InputAt(1))
    /\ InputAt(1).m["satellites"] = JStrText
    /\ handed = <<>>
    /\ samples_received = 0
    /\ thread = "running"
    /\ bgPc = "idle"

====
